---- MODULE Spec2Model ----
(***************************************************************************)
(* A model of lib/http3/common.c of h2o: the HTTP/3 frame reader, the      *)
(* receive-buffer helper, the ingress unidirectional streams and their     *)
(* input handlers, SETTINGS handling, the datagram pump's packet grouping  *)
(* and the connection timer.                                               *)
(*                                                                         *)
(* Conventions.  A byte is a number in 0..255.  A C cursor (const uint8_t  *)
(* *src) over a byte range is the pair of the range, a sequence, and the   *)
(* number pos of bytes already passed, so that *src is bytes[pos + 1] and  *)
(* src == src_end is pos = Len(bytes).  An int return code is a pair       *)
(* <<name, argument>>; success (0) is OK.                                  *)
(***************************************************************************)
EXTENDS Integers, Sequences, FiniteSets, TLC

VARIABLES
    \* ---- the frame reader driven over growing prefixes
    fr_input,       \* the whole byte sequence that will arrive
    fr_avail,       \* how many of its bytes have arrived so far
    fr_cursor,      \* the caller's cursor (*_src), as an offset into fr_input
    fr_frames,      \* the frames the incremental reads have yielded so far
    fr_last,        \* the last call: cursor before, cursor after, result
    fr_sent         \* what the sender encoded: the length, type and header size

fr_vars == <<fr_input, fr_avail, fr_cursor, fr_frames, fr_last, fr_sent>>

VARIABLES
    \* ---- one receive buffer written through h2o_http3_update_recvbuf
    rb_buf,         \* the h2o_buffer_t: its bytes and its size
    rb_last         \* the last call: its arguments, the buffer before, the result

rb_vars == <<rb_buf, rb_last>>

VARIABLES
    \* ---- one connection and the unidirectional streams its peer opens
    conn,           \* h2o_http3_conn_t: qpack.{enc,dec}, _control_streams.ingress
    streams,        \* per stream: the ingress unistream and its quicly_stream_t
    conn_error,     \* OK, or the code a callback returned, on which quicly
                    \* closes the connection and delivers nothing more
    stop_sending,   \* per stream: how often quicly_request_stop was called
    enc_created,    \* how often h2o_qpack_create_encoder was called
    last            \* what the last stream callback did

in_vars == <<conn, streams, conn_error, stop_sending, enc_created, last>>

VARIABLES
    \* ---- one round of on_read
    pump_dgrams,    \* the datagrams the round read, in order
    pump_calls,     \* the calls of process_packets the round made, in order
    pump_pc,        \* where the round is: "idle", "decode" or "done"
    pump_env,       \* the maps of the context and what its acceptor does
    pump_did        \* what each call of process_packets did, in order

pump_vars == <<pump_dgrams, pump_calls, pump_pc, pump_env, pump_did>>

VARIABLES
    \* ---- the timer of one connection
    timeout_,       \* conn->_timeout: linked or not, and expire_at
    pending,        \* how many entries of the loop's timer wheel are this timer's
    now,            \* h2o_now(conn->ctx->loop)
    first_timeout,  \* quicly_get_first_timeout(conn->quic)
    use_libuv,      \* whether the build defines H2O_USE_LIBUV
    tm_last         \* the last call of h2o_http3_schedule_timer, and the one before

tm_vars == <<timeout_, pending, now, first_timeout, use_libuv, tm_last>>

VARIABLES
    \* ---- one call of h2o_http3_handle_settings_frame
    set_pairs,      \* the {id, value} pairs the peer encoded
    set_cut,        \* how many bytes of the last pair are missing from the payload
    set_res         \* what the call returned and did

set_vars == <<set_pairs, set_cut, set_res>>

VARIABLES
    \* ---- one egress unistream and its send callbacks
    eg_sendbuf,     \* stream->sendbuf, the bytes not yet acknowledged
    eg_last         \* what the last callback was given and did

eg_vars == <<eg_sendbuf, eg_last>>

VARIABLES
    \* ---- a context, its connections and its two maps
    quics,          \* the quicly connection each h2o_http3_conn_t is set up with
    conns,          \* the h2o_http3_conn_t structures
    ctx,            \* ctx->conns_by_id and ctx->conns_accepting
    ctx_last        \* what the last call was given and returned

ctx_vars == <<quics, conns, ctx, ctx_last>>

VARIABLES
    \* ---- one run of h2o_http3_send
    send_pc,        \* where the run is: "quicly_send", "for", or how it ended
    send_packets,   \* packets[0 .. num_packets) of the round, with what was done to each
    send_i,         \* the i of the for loop
    send_timeout,   \* conn->_timeout
    send_log        \* what the run has done so far

send_vars == <<send_pc, send_packets, send_i, send_timeout, send_log>>

VARIABLES
    \* ---- the QPACK decoder instructions a connection sends
    qp_conn,        \* the connection, with its egress unistreams
    qp_calls,       \* how many instructions were sent
    qp_last         \* what the last call was given and did

qp_vars == <<qp_conn, qp_calls, qp_last>>

vars == <<fr_vars, rb_vars, in_vars, pump_vars, tm_vars, set_vars, eg_vars, ctx_vars, send_vars, qp_vars>>

\* what each part of the program leaves alone
not_fr_vars == <<rb_vars, in_vars, pump_vars, tm_vars, set_vars, eg_vars, ctx_vars, send_vars, qp_vars>>
not_rb_vars == <<fr_vars, in_vars, pump_vars, tm_vars, set_vars, eg_vars, ctx_vars, send_vars, qp_vars>>
not_in_vars == <<fr_vars, rb_vars, pump_vars, tm_vars, set_vars, eg_vars, ctx_vars, send_vars, qp_vars>>
not_pump_vars == <<fr_vars, rb_vars, in_vars, tm_vars, set_vars, eg_vars, ctx_vars, send_vars, qp_vars>>
not_tm_vars == <<fr_vars, rb_vars, in_vars, pump_vars, set_vars, eg_vars, ctx_vars, send_vars, qp_vars>>
not_set_vars == <<fr_vars, rb_vars, in_vars, pump_vars, tm_vars, eg_vars, ctx_vars, send_vars, qp_vars>>
not_eg_vars == <<fr_vars, rb_vars, in_vars, pump_vars, tm_vars, set_vars, ctx_vars, send_vars, qp_vars>>
not_ctx_vars == <<fr_vars, rb_vars, in_vars, pump_vars, tm_vars, set_vars, eg_vars, send_vars, qp_vars>>
not_send_vars == <<fr_vars, rb_vars, in_vars, pump_vars, tm_vars, set_vars, eg_vars, ctx_vars, qp_vars>>
not_qp_vars == <<fr_vars, rb_vars, in_vars, pump_vars, tm_vars, set_vars, eg_vars, ctx_vars, send_vars>>

\* ------------------------------------------------------------------ codes

OK == <<"OK", 0>>
H2O_HTTP3_ERROR_INCOMPLETE == <<"INCOMPLETE", 0>>
H2O_HTTP3_ERROR_CLOSED_CRITICAL_STREAM == <<"CLOSED_CRITICAL_STREAM", 0>>
H2O_HTTP3_ERROR_UNKNOWN_STREAM_TYPE == <<"UNKNOWN_STREAM_TYPE", 0>>
PTLS_ERROR_NO_MEMORY == <<"NO_MEMORY", 0>>
H2O_HTTP3_ERROR_MALFORMED_FRAME(type) == <<"MALFORMED_FRAME", type>>

H2O_HTTP3_FRAME_TYPE_DATA == 0
H2O_HTTP3_FRAME_TYPE_SETTINGS == 4
H2O_HTTP3_SETTINGS_HEADER_TABLE_SIZE == 1
H2O_HTTP3_DEFAULT_HEADER_TABLE_SIZE == 4096
MAX_FRAME_SIZE == 16384

\* ------------------------------------------------------------ small helpers

Max(a, b) == IF a >= b THEN a ELSE b
Min(a, b) == IF a <= b THEN a ELSE b

\* bytes[from + 1 .. from + n], the n bytes that follow offset from
Slice(bytes, from, n) == [i \in 1..n |-> bytes[from + i]]

Prefix(bytes, n) == Slice(bytes, 0, n)

Zeros(n) == [i \in 1..n |-> 0]

RECURSIVE BigEndian(_, _, _, _)
\* the big-endian value of bytes[from + 1 .. from + n], continuing from acc
BigEndian(bytes, from, n, acc) ==
    IF n = 0 THEN acc
    ELSE BigEndian(bytes, from + 1, n - 1, acc * 256 + bytes[from + 1])

\* ------------------------------------------------------- QUIC varint decoding

\* quicly_decodev: the two top bits of the first byte give the encoded
\* length (1, 2, 4 or 8 bytes), the remaining bits are the value, big-endian.
\* A truncated encoding yields UINT64_MAX (ok = FALSE) and the cursor stays.
\* The 62-bit value is kept as its bytes, most significant first.
quicly_decodev(bytes, pos) ==
    IF pos >= Len(bytes)
    THEN [ok |-> FALSE, digits |-> <<>>, pos |-> pos]
    ELSE LET first == bytes[pos + 1]
             n == 2 ^ (first \div 64)
         IN  IF Len(bytes) - pos < n
             THEN [ok |-> FALSE, digits |-> <<>>, pos |-> pos]
             ELSE [ok |-> TRUE,
                   digits |-> <<first % 64>> \o Slice(bytes, pos + 1, n - 1),
                   pos |-> pos + n]

\* the number that the bytes of a value stand for, where it is below 2^31
Number(digits) == BigEndian(digits, 0, Len(digits), 0)

\* ptls_decode16: a big-endian 16-bit number, or failure when fewer than two
\* bytes remain.
ptls_decode16(bytes, pos) ==
    IF Len(bytes) - pos < 2
    THEN [ok |-> FALSE, value |-> 0, pos |-> pos]
    ELSE [ok |-> TRUE, value |-> BigEndian(bytes, pos, 2, 0), pos |-> pos + 2]

\* ------------------------------------------------------------ frame reader

\* what an unset field of h2o_http3_read_frame_t reads as in the model
UNSET == -1

FrameResult(ret, pos, type, length, header_size, payload) ==
    [ret |-> ret, pos |-> pos, type |-> type, length |-> length,
     header_size |-> header_size, payload |-> payload]

\* A reader that commits the cursor as soon as the header has been read,
\* whether or not the frame turns out to be complete.
read_frame_commits_header(bytes, pos) ==
    LET v == quicly_decodev(bytes, pos) IN
    IF ~v.ok THEN FrameResult(H2O_HTTP3_ERROR_INCOMPLETE, pos, UNSET, UNSET, UNSET, <<>>)
    ELSE IF v.pos = Len(bytes)
    THEN FrameResult(H2O_HTTP3_ERROR_INCOMPLETE, pos, UNSET, Number(v.digits), UNSET, <<>>)
    ELSE LET type == bytes[v.pos + 1]
             src == v.pos + 1
             hs == src - pos
         IN  IF type # H2O_HTTP3_FRAME_TYPE_DATA
             THEN IF Number(v.digits) >= MAX_FRAME_SIZE
                  THEN FrameResult(H2O_HTTP3_ERROR_MALFORMED_FRAME(type), pos, type,
                                   Number(v.digits), hs, <<>>)
                  ELSE IF Len(bytes) - src < Number(v.digits)
                  THEN FrameResult(H2O_HTTP3_ERROR_INCOMPLETE, src, type, Number(v.digits), hs, <<>>)
                  ELSE FrameResult(OK, src + Number(v.digits), type, Number(v.digits), hs,
                                   Slice(bytes, src, Number(v.digits)))
             ELSE FrameResult(OK, src, type, Number(v.digits), hs, <<>>)

\* A reader whose size cap is off by one (length > MAX_FRAME_SIZE).
read_frame_cap_off_by_one(bytes, pos) ==
    LET v == quicly_decodev(bytes, pos) IN
    IF ~v.ok THEN FrameResult(H2O_HTTP3_ERROR_INCOMPLETE, pos, UNSET, UNSET, UNSET, <<>>)
    ELSE IF v.pos = Len(bytes)
    THEN FrameResult(H2O_HTTP3_ERROR_INCOMPLETE, pos, UNSET, Number(v.digits), UNSET, <<>>)
    ELSE LET type == bytes[v.pos + 1]
             src == v.pos + 1
             hs == src - pos
         IN  IF type # H2O_HTTP3_FRAME_TYPE_DATA
             THEN IF Number(v.digits) > MAX_FRAME_SIZE
                  THEN FrameResult(H2O_HTTP3_ERROR_MALFORMED_FRAME(type), pos, type,
                                   Number(v.digits), hs, <<>>)
                  ELSE IF Len(bytes) - src < Number(v.digits)
                  THEN FrameResult(H2O_HTTP3_ERROR_INCOMPLETE, pos, type, Number(v.digits), hs, <<>>)
                  ELSE FrameResult(OK, src + Number(v.digits), type, Number(v.digits), hs,
                                   Slice(bytes, src, Number(v.digits)))
             ELSE FrameResult(OK, src, type, Number(v.digits), hs, <<>>)

\* h2o_http3_read_frame(frame, _src, src_end, err_desc).  The function works
\* on a local copy of the cursor and stores it back (*_src = src) only on the
\* success path, so every error return leaves pos as it was.
h2o_http3_read_frame(bytes, pos) ==
    LET v == quicly_decodev(bytes, pos) IN
    IF ~v.ok THEN FrameResult(H2O_HTTP3_ERROR_INCOMPLETE, pos, UNSET, UNSET, UNSET, <<>>)
    ELSE IF v.pos = Len(bytes)
    THEN FrameResult(H2O_HTTP3_ERROR_INCOMPLETE, pos, UNSET, Number(v.digits), UNSET, <<>>)
    ELSE LET type == bytes[v.pos + 1]
             src == v.pos + 1
             hs == src - pos
         IN  IF type # H2O_HTTP3_FRAME_TYPE_DATA
             THEN IF Number(v.digits) >= MAX_FRAME_SIZE
                  THEN FrameResult(H2O_HTTP3_ERROR_MALFORMED_FRAME(type), pos, type,
                                   Number(v.digits), hs, <<>>)
                  ELSE IF Len(bytes) - src < Number(v.digits)
                  THEN FrameResult(H2O_HTTP3_ERROR_INCOMPLETE, pos, type, Number(v.digits), hs, <<>>)
                  ELSE FrameResult(OK, src + Number(v.digits), type, Number(v.digits), hs,
                                   Slice(bytes, src, Number(v.digits)))
             ELSE FrameResult(OK, src, type, Number(v.digits), hs, <<>>)

\* the part of a read that the caller sees as a frame
FrameOf(f) == [type |-> f.type, length |-> f.length, payload |-> f.payload,
               header_size |-> f.header_size]

RECURSIVE ReadAll(_, _)
\* the frames read from the whole sequence in one go, calling the reader
\* until it stops yielding a frame
ReadAll(bytes, pos) ==
    LET f == h2o_http3_read_frame(bytes, pos) IN
    IF f.ret # OK THEN <<>> ELSE <<FrameOf(f)>> \o ReadAll(bytes, f.pos)

\* --------------------------------------------------------- receive buffer

\* A byte of buffer memory that nothing has been copied to yet.
GARBAGE == 256

\* A size_t is kept as a number below 2^63; a negative number n stands for
\* the wrapped value 2^64 + n.  SizeLess is < on size_t.
SizeLess(a, b) ==
    IF a < 0 THEN b < 0 /\ a < b
    ELSE b < 0 \/ a < b

\* h2o_buffer_init: an empty buffer
EmptyBuffer == [bytes |-> <<>>, size |-> 0]

\* memcpy(buf->bytes + off, src, len), on memory that reaches at least to
\* off + len: the bytes outside [off, off + len) stay what they were
CopyAt(bytes, off, src) ==
    [i \in 1..Max(Len(bytes), off + Len(src)) |->
        IF off < i /\ i <= off + Len(src) THEN src[i - off]
        ELSE IF i <= Len(bytes) THEN bytes[i]
        ELSE GARBAGE]

\* h2o_http3_update_recvbuf(buf, off, src, len).  reserved tells whether
\* h2o_buffer_reserve, when it is called, obtains the capacity.
h2o_http3_update_recvbuf(buf, off, src, reserved) ==
    LET new_size == off + Len(src) IN
    IF SizeLess(buf.size, new_size) /\ ~reserved
    THEN [ret |-> PTLS_ERROR_NO_MEMORY, buf |-> buf]
    ELSE [ret |-> OK, buf |-> [bytes |-> CopyAt(buf.bytes, off, src), size |-> new_size]]

\* h2o_buffer_consume(buf, delta): drop delta bytes from the front
h2o_buffer_consume(buf, delta) ==
    [bytes |-> Slice(buf.bytes, delta, Len(buf.bytes) - delta), size |-> buf.size - delta]

\* ------------------------------------------------ quicly's receive state

\* A quicly_recvstate_t, relative to the first byte not yet consumed:
\* received is the set of offsets received, eos the offset of the end of the
\* stream once a FIN has been seen.
NewRecvstate == [received |-> {}, eos_known |-> FALSE, eos |-> 0]

\* quicly_recvstate_bytes_available: the length of the contiguous prefix
quicly_recvstate_bytes_available(rs) ==
    Cardinality({k \in rs.received : \A j \in 0..k : j \in rs.received})

\* quicly_recvstate_transfer_complete: everything up to the FIN is there
quicly_recvstate_transfer_complete(rs) ==
    rs.eos_known /\ \A j \in 0..(rs.eos - 1) : j \in rs.received

\* quicly's bookkeeping when a STREAM frame [off, off + len) arrives
quicly_recvstate_update(rs, off, len, fin) ==
    [received |-> rs.received \cup (off..(off + len - 1)),
     eos_known |-> rs.eos_known \/ fin,
     eos |-> IF fin THEN off + len ELSE rs.eos]

\* quicly_stream_sync_recvbuf(stream, shift): shift bytes have been consumed
quicly_stream_sync_recvbuf(rs, shift) ==
    [received |-> {k - shift : k \in {j \in rs.received : j >= shift}},
     eos_known |-> rs.eos_known,
     eos |-> IF rs.eos_known THEN rs.eos - shift ELSE rs.eos]

\* ------------------------------------------------------------------ QPACK

NoCoder == [present |-> FALSE, header_table_size |-> <<>>]

Coder(header_table_size) == [present |-> TRUE, header_table_size |-> header_table_size]

\* h2o_http3_has_received_settings(conn): conn->qpack.enc != NULL
h2o_http3_has_received_settings(c) == c.qpack.enc.present

\* (uint32_t)value: the low four bytes of the value
Uint32(digits) ==
    LET padded == Zeros(4) \o digits
    IN  Slice(padded, Len(padded) - 4, 4)

\* a uint32_t constant as its four bytes
Bytes4(n) ==
    <<(n \div 16777216) % 256, (n \div 65536) % 256, (n \div 256) % 256, n % 256>>

RECURSIVE SettingsLoop(_, _, _)
\* the while loop of h2o_http3_handle_settings_frame: {id, value} pairs until
\* the payload ends
SettingsLoop(payload, pos, header_table_size) ==
    IF pos = Len(payload) THEN [ok |-> TRUE, header_table_size |-> header_table_size]
    ELSE LET id == ptls_decode16(payload, pos) IN
         IF ~id.ok THEN [ok |-> FALSE, header_table_size |-> header_table_size]
         ELSE LET value == quicly_decodev(payload, id.pos) IN
              IF ~value.ok THEN [ok |-> FALSE, header_table_size |-> header_table_size]
              ELSE SettingsLoop(payload, value.pos,
                                IF id.value = H2O_HTTP3_SETTINGS_HEADER_TABLE_SIZE
                                THEN Uint32(value.digits) ELSE header_table_size)

\* A handler that creates the encoder with the default table size whatever
\* the payload says.
settings_frame_keeps_default(c, payload) ==
    LET parsed == SettingsLoop(payload, 0, Bytes4(H2O_HTTP3_DEFAULT_HEADER_TABLE_SIZE)) IN
    IF parsed.ok
    THEN [ret |-> OK,
          conn |-> [c EXCEPT !.qpack.enc =
                                 Coder(Bytes4(H2O_HTTP3_DEFAULT_HEADER_TABLE_SIZE))],
          asserted |-> ~h2o_http3_has_received_settings(c), created |-> TRUE]
    ELSE [ret |-> H2O_HTTP3_ERROR_MALFORMED_FRAME(H2O_HTTP3_FRAME_TYPE_SETTINGS),
          conn |-> c,
          asserted |-> ~h2o_http3_has_received_settings(c), created |-> FALSE]

\* h2o_http3_handle_settings_frame(conn, payload, length, err_desc).
\* asserted tells whether assert(!h2o_http3_has_received_settings(conn))
\* held; created whether h2o_qpack_create_encoder was called.
h2o_http3_handle_settings_frame(c, payload) ==
    LET parsed == SettingsLoop(payload, 0, Bytes4(H2O_HTTP3_DEFAULT_HEADER_TABLE_SIZE)) IN
    IF parsed.ok
    THEN [ret |-> OK,
          conn |-> [c EXCEPT !.qpack.enc = Coder(parsed.header_table_size)],
          asserted |-> ~h2o_http3_has_received_settings(c), created |-> TRUE]
    ELSE [ret |-> H2O_HTTP3_ERROR_MALFORMED_FRAME(H2O_HTTP3_FRAME_TYPE_SETTINGS),
          conn |-> c,
          asserted |-> ~h2o_http3_has_received_settings(c), created |-> FALSE]

\* conn->callbacks->handle_control_stream_frame: the HTTP layer hands a
\* SETTINGS frame to h2o_http3_handle_settings_frame and accepts the others.
handle_control_stream_frame(c, type, payload) ==
    IF type = H2O_HTTP3_FRAME_TYPE_SETTINGS
    THEN LET r == h2o_http3_handle_settings_frame(c, payload)
         IN  [ret |-> r.ret, conn |-> r.conn,
              settings |-> <<[asserted |-> r.asserted, created |-> r.created, ret |-> r.ret]>>]
    ELSE [ret |-> OK, conn |-> c, settings |-> <<>>]

\* h2o_qpack_decoder_handle_input / h2o_qpack_encoder_handle_input: the codec
\* takes one instruction, a byte here, and succeeds.
h2o_qpack_handle_input(coder, bytes, pos) == [ret |-> OK, pos |-> pos + 1]

\* ----------------------------------------------------------- input handlers

\* the values of stream->handle_input
UnknownType == "unknown_type_handle_input"
Discard == "unknown_stream_type_handle_input"
ControlFrame == "control_stream_handle_input"
QpackEncoderFeed == "qpack_encoder_stream_handle_input"
QpackDecoderFeed == "qpack_decoder_stream_handle_input"
NoHandler == "none"

NoStreamId == "none"

\* What a handler returns and what it did: the return code, the cursor, the
\* connection, the stream's handle_input, the number of quicly_request_stop
\* calls, the frames the control handler read (with the gate's verdict),
\* the calls of h2o_http3_handle_settings_frame and the feeds of a coder.
Handled(ret, pos, c, handle_input) ==
    [ret |-> ret, pos |-> pos, conn |-> c, handle_input |-> handle_input,
     stop |-> 0, frames |-> <<>>, settings |-> <<>>, fed |-> <<>>]

RECURSIVE FeedLoop(_, _, _, _, _)
\* while (*src != src_end) feed the coder; stop at its first error
FeedLoop(which, coder, bytes, pos, fed) ==
    IF pos = Len(bytes) THEN [ret |-> OK, pos |-> pos, fed |-> fed]
    ELSE LET r == h2o_qpack_handle_input(coder, bytes, pos)
             f == Append(fed, [coder |-> which, present |-> coder.present])
         IN  IF r.ret # OK THEN [ret |-> r.ret, pos |-> r.pos, fed |-> f]
             ELSE FeedLoop(which, coder, bytes, r.pos, f)

\* the peer's encoder stream feeds our decoder
qpack_encoder_stream_handle_input(c, s, handle_input, bytes, pos) ==
    LET r == FeedLoop("dec", c.qpack.dec, bytes, pos, <<>>)
    IN  [Handled(r.ret, r.pos, c, handle_input) EXCEPT !.fed = r.fed]

\* the peer's decoder stream feeds our encoder
qpack_decoder_stream_handle_input(c, s, handle_input, bytes, pos) ==
    LET r == FeedLoop("enc", c.qpack.enc, bytes, pos, <<>>)
    IN  [Handled(r.ret, r.pos, c, handle_input) EXCEPT !.fed = r.fed]

\* A gate that lets a SETTINGS frame through whenever it comes.
gate_forgets_settings(c, type) ==
    (~h2o_http3_has_received_settings(c) /\ type # H2O_HTTP3_FRAME_TYPE_SETTINGS)
        \/ type = H2O_HTTP3_FRAME_TYPE_DATA

\* the gate of control_stream_handle_input: the frame is malformed here
control_frame_is_malformed(c, type) ==
    (h2o_http3_has_received_settings(c) = (type = H2O_HTTP3_FRAME_TYPE_SETTINGS))
        \/ type = H2O_HTTP3_FRAME_TYPE_DATA

\* control_stream_handle_input once the callback has returned r for frame f
ControlFrameHandled(handle_input, f, seen, r) ==
    [Handled(r.ret, f.pos, r.conn, handle_input)
        EXCEPT !.frames = <<[frame |-> seen, callback |-> TRUE]>>,
               !.settings = r.settings]

\* control_stream_handle_input once h2o_http3_read_frame has returned f
ControlFrameRead(c, handle_input, f) ==
    IF f.ret # OK
    THEN Handled(IF f.ret = H2O_HTTP3_ERROR_INCOMPLETE THEN OK ELSE f.ret,
                 f.pos, c, handle_input)
    ELSE LET seen == [type |-> f.type, length |-> f.length,
                      had_settings |-> h2o_http3_has_received_settings(c)]
         IN  IF control_frame_is_malformed(c, f.type)
             THEN [Handled(H2O_HTTP3_ERROR_MALFORMED_FRAME(f.type), f.pos, c, handle_input)
                      EXCEPT !.frames = <<[frame |-> seen, callback |-> FALSE]>>]
             ELSE ControlFrameHandled(handle_input, f, seen,
                                      handle_control_stream_frame(c, f.type, f.payload))

\* control_stream_handle_input: one call of the frame reader, the gate, and
\* the HTTP layer's callback
control_stream_handle_input(c, s, handle_input, bytes, pos) ==
    ControlFrameRead(c, handle_input, h2o_http3_read_frame(bytes, pos))

\* unknown_stream_type_handle_input: just consume the input
unknown_stream_type_handle_input(c, s, handle_input, bytes, pos) ==
    Handled(OK, Len(bytes), c, handle_input)

\* a call through stream->handle_input once the type of the stream is known
CallTyped(handle_input, c, s, bytes, pos) ==
    CASE handle_input = ControlFrame ->
            control_stream_handle_input(c, s, handle_input, bytes, pos)
      [] handle_input = QpackEncoderFeed ->
            qpack_encoder_stream_handle_input(c, s, handle_input, bytes, pos)
      [] handle_input = QpackDecoderFeed ->
            qpack_decoder_stream_handle_input(c, s, handle_input, bytes, pos)
      [] OTHER ->
            unknown_stream_type_handle_input(c, s, handle_input, bytes, pos)

\* unknown_type_handle_input: the first byte of the stream selects the
\* handler, the slot of the connection, or STOP_SENDING; the byte is passed
\* and the new handler is called on what follows.
unknown_type_handle_input(c, s, handle_input, bytes, pos) ==
    IF pos = Len(bytes) THEN Handled(OK, pos, c, handle_input)
    ELSE LET type == bytes[pos + 1]
             c1 == CASE type = 67 -> [c EXCEPT !.ingress.control = s]
                     [] type = 72 -> [c EXCEPT !.ingress.qpack_encoder = s]
                     [] type = 104 -> [c EXCEPT !.ingress.qpack_decoder = s]
                     [] OTHER -> c
             h1 == CASE type = 67 -> ControlFrame
                     [] type = 72 -> QpackEncoderFeed
                     [] type = 104 -> QpackDecoderFeed
                     [] OTHER -> Discard
             r == CallTyped(h1, c1, s, bytes, pos + 1)
         IN  [r EXCEPT !.stop = IF h1 = Discard THEN @ + 1 ELSE @]

\* a call through stream->handle_input
CallHandler(handle_input, c, s, bytes, pos) ==
    IF handle_input = UnknownType
    THEN unknown_type_handle_input(c, s, handle_input, bytes, pos)
    ELSE CallTyped(handle_input, c, s, bytes, pos)

\* ---------------------------------------------------------- ingress unistream

\* h2o_http3_on_create_unidirectional_stream, for a stream of the peer
NewIngressUnistream(script) ==
    [script |-> script, data_off |-> 0, handle_input |-> UnknownType,
     recvbuf |-> EmptyBuffer, recvstate |-> NewRecvstate]

NoStream ==
    [script |-> <<>>, data_off |-> 0, handle_input |-> NoHandler,
     recvbuf |-> EmptyBuffer, recvstate |-> NewRecvstate]

\* A receive path that hands the bytes to the handler whether or not the
\* stream has ended.
closed_check_missing(rs) == FALSE

\* "respond with fatal error if the stream is closed"
stream_is_closed(rs) == quicly_recvstate_transfer_complete(rs)

\* what ingress_unistream_on_receive returns when it does not reach the handler
Quiet(c, st, size) ==
    [ret |-> OK, conn |-> c, stream |-> st, invoked |-> FALSE,
     found_closed |-> FALSE, avail |-> 0, advanced |-> 0, consumed |-> 0,
     synced |-> 0, untouched |-> TRUE, size_before |-> size, presented |-> <<>>,
     stop |-> 0, frames |-> <<>>, settings |-> <<>>, fed |-> <<>>]

\* A receive path that acknowledges to the transport all the bytes that were
\* available, whatever the handler consumed.
on_receive_syncs_available(st1, avail, h) ==
    LET bytes_consumed == h.pos
        st2 == [st1 EXCEPT
                   !.handle_input = h.handle_input,
                   !.recvbuf = IF bytes_consumed # 0
                               THEN h2o_buffer_consume(st1.recvbuf, bytes_consumed)
                               ELSE st1.recvbuf,
                   !.recvstate = quicly_stream_sync_recvbuf(st1.recvstate, avail),
                   !.data_off = st1.data_off + bytes_consumed]
    IN  [ret |-> h.ret, conn |-> h.conn, stream |-> st2, invoked |-> TRUE,
         found_closed |-> FALSE, avail |-> avail, advanced |-> h.pos,
         consumed |-> Len(st1.recvbuf.bytes) - Len(st2.recvbuf.bytes),
         synced |-> avail - quicly_recvstate_bytes_available(st2.recvstate),
         untouched |-> st2.recvbuf = st1.recvbuf /\ st2.recvstate = st1.recvstate,
         size_before |-> st1.recvbuf.size,
         presented |-> Prefix(st1.recvbuf.bytes, avail),
         stop |-> h.stop, frames |-> h.frames, settings |-> h.settings,
         fed |-> h.fed]

\* "remove bytes that have been consumed": the handler has returned h
OnReceiveHandled(st1, avail, h) ==
    LET bytes_consumed == h.pos
        st2 == [st1 EXCEPT
                   !.handle_input = h.handle_input,
                   !.recvbuf = IF bytes_consumed # 0
                               THEN h2o_buffer_consume(st1.recvbuf, bytes_consumed)
                               ELSE st1.recvbuf,
                   !.recvstate = IF bytes_consumed # 0
                                 THEN quicly_stream_sync_recvbuf(st1.recvstate,
                                                                 bytes_consumed)
                                 ELSE st1.recvstate,
                   !.data_off = st1.data_off + bytes_consumed]
    IN  [ret |-> h.ret, conn |-> h.conn, stream |-> st2, invoked |-> TRUE,
         found_closed |-> FALSE, avail |-> avail, advanced |-> h.pos,
         consumed |-> Len(st1.recvbuf.bytes) - Len(st2.recvbuf.bytes),
         synced |-> avail - quicly_recvstate_bytes_available(st2.recvstate),
         untouched |-> st2.recvbuf = st1.recvbuf /\ st2.recvstate = st1.recvstate,
         size_before |-> st1.recvbuf.size,
         presented |-> Prefix(st1.recvbuf.bytes, avail),
         stop |-> h.stop, frames |-> h.frames, settings |-> h.settings,
         fed |-> h.fed]

\* "determine bytes that can be handled" and "handle the bytes"
OnReceiveAvailable(c, s, st1, avail) ==
    IF avail = 0 THEN Quiet(c, st1, st1.recvbuf.size)
    ELSE OnReceiveHandled(st1, avail,
             CallHandler(st1.handle_input, c, s, Prefix(st1.recvbuf.bytes, avail), 0))

\* ingress_unistream_on_receive once h2o_http3_update_recvbuf has returned saved
OnReceiveSaved(c, s, st, saved) ==
    IF saved.ret # OK THEN [Quiet(c, st, saved.buf.size) EXCEPT !.ret = saved.ret]
    ELSE IF stream_is_closed(st.recvstate)
    THEN [Quiet(c, [st EXCEPT !.recvbuf = saved.buf], saved.buf.size)
             EXCEPT !.ret = H2O_HTTP3_ERROR_CLOSED_CRITICAL_STREAM, !.found_closed = TRUE]
    ELSE OnReceiveAvailable(c, s, [st EXCEPT !.recvbuf = saved.buf],
                            quicly_recvstate_bytes_available(st.recvstate))

\* ingress_unistream_on_receive(qs, off, input, len); st is the stream with
\* the receive state as quicly has updated it for this frame.
ingress_unistream_on_receive(c, s, st, off, input, reserved) ==
    OnReceiveSaved(c, s, st, h2o_http3_update_recvbuf(st.recvbuf, off, input, reserved))

\* ingress_unistream_on_receive_reset(qs, err)
ingress_unistream_on_receive_reset(st) == H2O_HTTP3_ERROR_CLOSED_CRITICAL_STREAM

\* ------------------------------------- the receive buffer, written by segments

MaxOff == 2
MaxSegLen == 2

RbBytes == {1, 2}

RECURSIVE SeqsUpTo(_, _)
\* the sequences over S of length at most n
SeqsUpTo(S, n) ==
    IF n = 0 THEN { <<>> }
    ELSE LET shorter == SeqsUpTo(S, n - 1)
         IN  shorter \cup { Append(q, x) : q \in shorter, x \in S }

RbSegments == SeqsUpTo(RbBytes, MaxSegLen)

RbNoCall == [called |-> FALSE, off |-> 0, src |-> <<>>, prev |-> EmptyBuffer, ret |-> OK]

RbIdle ==
    /\ rb_buf = EmptyBuffer
    /\ rb_last = RbNoCall

RecvbufStart == RbIdle

RecvbufWrite(off, src, reserved) ==
    LET r == h2o_http3_update_recvbuf(rb_buf, off, src, reserved) IN
    /\ rb_buf' = r.buf
    /\ rb_last' = [called |-> TRUE, off |-> off, src |-> src, prev |-> rb_buf, ret |-> r.ret]
    /\ UNCHANGED not_rb_vars

RecvbufNext ==
    \E off \in 0..MaxOff, src \in RbSegments, reserved \in BOOLEAN :
        RecvbufWrite(off, src, reserved)

\* what a reader of the buffer sees: its size and the bytes below its size
Contents(buf) == [size |-> buf.size, bytes |-> Prefix(buf.bytes, Min(buf.size, Len(buf.bytes)))]

\* the buffer after a successful write of src at off
Written(buf, off, src) == h2o_http3_update_recvbuf(buf, off, src, TRUE).buf

Disjoint(off1, src1, off2, src2) ==
    off1 + Len(src1) <= off2 \/ off2 + Len(src2) <= off1

\* C4: a successful write leaves size = max(previous size, off + len) and
\* the bytes at [off, off + len) equal to src; the write just made and any
\* write of a segment that does not overlap it give the same buffer in
\* either order; repeating the write just made changes nothing.
C4_UpdateRecvbuf ==
    rb_last.called /\ rb_last.ret = OK =>
        /\ rb_buf.size = Max(rb_last.prev.size, rb_last.off + Len(rb_last.src))
        /\ Slice(rb_buf.bytes, rb_last.off, Len(rb_last.src)) = rb_last.src
        /\ \A off2 \in 0..MaxOff, src2 \in RbSegments :
              Disjoint(rb_last.off, rb_last.src, off2, src2) =>
                  Contents(Written(rb_buf, off2, src2))
                      = Contents(Written(Written(rb_last.prev, off2, src2),
                                         rb_last.off, rb_last.src))
        /\ Written(rb_buf, rb_last.off, rb_last.src) = rb_buf

\* ------------------------------------------- the frame reader, fed by bytes

MaxFrames == 2

\* well-formed frames other than DATA: an empty SETTINGS, MAX_PUSH_ID with a
\* one-byte payload, a frame whose length is a two-byte varint, a two-byte
\* payload, and a frame whose length is a four-byte varint
WellFormedFrames ==
    { <<0, 4>>, <<1, 13, 0>>, <<64, 1, 7, 9>>, <<2, 2, 7, 9>>, <<128, 0, 0, 1, 13, 5>> }

RECURSIVE FrameStreams(_)
\* the concatenations of at most n well-formed frames
FrameStreams(n) ==
    IF n = 0 THEN { <<>> }
    ELSE LET shorter == FrameStreams(n - 1)
         IN  shorter \cup { s \o f : s \in shorter, f \in WellFormedFrames }

NoCall == [before |-> 0, after |-> 0, res |-> FrameResult(OK, 0, UNSET, UNSET, UNSET, <<>>),
           called |-> FALSE]

NotSent == [length |-> 0, type |-> 0, header_size |-> 0]

FrIdle ==
    /\ fr_input = <<>>
    /\ fr_avail = 0
    /\ fr_cursor = 0
    /\ fr_frames = <<>>
    /\ fr_last = NoCall
    /\ fr_sent = NotSent

FrameStart ==
    /\ fr_input \in FrameStreams(MaxFrames)
    /\ fr_avail = 0
    /\ fr_cursor = 0
    /\ fr_frames = <<>>
    /\ fr_last = NoCall
    /\ fr_sent = NotSent

\* One more byte arrives and the caller reads again from where its cursor is.
FrameFeedByte ==
    /\ fr_avail < Len(fr_input)
    /\ fr_avail' = fr_avail + 1
    /\ LET f == h2o_http3_read_frame(Prefix(fr_input, fr_avail + 1), fr_cursor)
       IN  /\ fr_cursor' = f.pos
           /\ fr_frames' = IF f.ret = OK THEN Append(fr_frames, FrameOf(f)) ELSE fr_frames
           /\ fr_last' = [before |-> fr_cursor, after |-> f.pos, res |-> f, called |-> TRUE]
    /\ UNCHANGED <<fr_input, fr_sent, not_fr_vars>>

FrameNext == FrameFeedByte

\* C5: reading byte by byte yields the frames that reading the bytes that
\* have arrived in one go yields; a call that does not succeed leaves the
\* cursor where it was, and a call that succeeds moves it by the header
\* size plus the length of the frame it returned.
C5_IncrementalEquivalence ==
    /\ fr_frames = ReadAll(Prefix(fr_input, fr_avail), 0)
    /\ (fr_avail = Len(fr_input) => fr_frames = ReadAll(fr_input, 0))
    /\ (fr_last.called /\ fr_last.res.ret # OK => fr_last.after = fr_last.before)
    /\ (fr_last.called /\ fr_last.res.ret = OK =>
            /\ fr_last.after = fr_last.before + fr_last.res.header_size + fr_last.res.length
            /\ fr_frames[Len(fr_frames)] = FrameOf(fr_last.res)
            /\ fr_last.res.payload =
                   Slice(fr_input, fr_last.before + fr_last.res.header_size, fr_last.res.length))

C5_Witness ==
    /\ fr_avail = Len(fr_input)
    /\ Len(fr_frames) = 2
    /\ fr_frames[1].header_size = 3
    /\ fr_frames[2].length = 2
    /\ fr_last.res.ret = OK

\* ------------------------------------- the frame reader at the size cap

\* how many bytes past the header, and short of the end, arrive one by one
CapWindow == 2

\* encodings of the lengths around the cap: 0, 1, 16383 (two and four
\* bytes), 16384 (four and eight bytes) and 16385
CapLengths ==
    { [length |-> 0, enc |-> <<0>>],
      [length |-> 1, enc |-> <<1>>],
      [length |-> MAX_FRAME_SIZE - 1, enc |-> <<127, 255>>],
      [length |-> MAX_FRAME_SIZE - 1, enc |-> <<128, 0, 63, 255>>],
      [length |-> MAX_FRAME_SIZE, enc |-> <<128, 0, 64, 0>>],
      [length |-> MAX_FRAME_SIZE, enc |-> <<192, 0, 0, 0, 0, 0, 64, 0>>],
      [length |-> MAX_FRAME_SIZE + 1, enc |-> <<128, 0, 64, 1>>] }

CapTypes == { H2O_HTTP3_FRAME_TYPE_DATA, H2O_HTTP3_FRAME_TYPE_SETTINGS, 13 }

CapStart ==
    /\ \E l \in CapLengths, t \in CapTypes :
          /\ fr_input = l.enc \o <<t>> \o Zeros(l.length)
          /\ fr_sent = [length |-> l.length, type |-> t, header_size |-> Len(l.enc) + 1]
    /\ fr_avail = 0
    /\ fr_cursor = 0
    /\ fr_frames = <<>>
    /\ fr_last = NoCall

\* n more bytes arrive and the frame at the start of the input is read
CapRead(n) ==
    /\ fr_avail' = fr_avail + n
    /\ LET f == h2o_http3_read_frame(Prefix(fr_input, fr_avail + n), 0)
       IN  /\ fr_cursor' = f.pos
           /\ fr_last' = [before |-> 0, after |-> f.pos, res |-> f, called |-> TRUE]
    /\ UNCHANGED <<fr_input, fr_frames, fr_sent, not_fr_vars>>

CapArriveByte ==
    /\ fr_avail < Len(fr_input)
    /\ \/ fr_avail < fr_sent.header_size + CapWindow
       \/ fr_avail >= Len(fr_input) - CapWindow
    /\ CapRead(1)

CapArriveBulk ==
    /\ fr_avail <= fr_sent.header_size + CapWindow
    /\ fr_avail < Len(fr_input) - CapWindow
    /\ CapRead(Len(fr_input) - CapWindow - fr_avail)

CapNext == CapArriveByte \/ CapArriveBulk

MaxSkip == 1

StreamIds == {"s1", "s2"}

\* What a peer may send on a unidirectional stream it opens.
Scripts ==
    { <<67, 0, 4, 1, 13, 0>>,       \* 'C', SETTINGS, MAX_PUSH_ID
      <<67, 0, 4, 1, 0, 104>>,      \* 'C', SETTINGS, DATA of length 1
      <<67, 1, 13, 0>>,             \* 'C', MAX_PUSH_ID before any SETTINGS
      <<67, 0, 0>>,                 \* 'C', DATA before any SETTINGS
      <<67, 0, 4, 0, 4>>,           \* 'C', SETTINGS, SETTINGS
      <<67, 3, 4, 0, 1, 32>>,       \* 'C', SETTINGS {HEADER_TABLE_SIZE = 32}
      <<67, 1, 4, 0>>,              \* 'C', SETTINGS with a truncated id
      <<67, 128, 0, 64, 0, 13>>,    \* 'C', a frame of length 16384
      <<72, 1, 2>>,                 \* 'H', two bytes for the QPACK decoder
      <<104, 1>>,                   \* 'h', one byte for the QPACK encoder
      <<127, 0>>,                   \* an unknown type, one more byte
      <<>> }                        \* nothing at all

\* the length of the longest script
MaxScriptLen == 6

NoCallback ==
    [kind |-> "none", stream |-> NoStreamId, handler_before |-> NoHandler,
     handler_after |-> NoHandler, ret |-> OK, invoked |-> FALSE, found_closed |-> FALSE,
     avail |-> 0, advanced |-> 0, consumed |-> 0, synced |-> 0, untouched |-> TRUE,
     size_before |-> 0, presented |-> <<>>, stop |-> 0,
     frames |-> <<>>, settings |-> <<>>, fed |-> <<>>]

\* the state h2o_http3_init_conn and h2o_http3_setup leave: the decoder is
\* there, the encoder is not, no ingress slot is bound
ConnAfterSetup ==
    [qpack |-> [enc |-> NoCoder, dec |-> Coder(Bytes4(H2O_HTTP3_DEFAULT_HEADER_TABLE_SIZE))],
     ingress |-> [control |-> NoStreamId, qpack_encoder |-> NoStreamId,
                  qpack_decoder |-> NoStreamId]]

InIdle ==
    /\ conn = ConnAfterSetup
    /\ streams = [s \in StreamIds |-> NoStream]
    /\ conn_error = OK
    /\ stop_sending = [s \in StreamIds |-> 0]
    /\ enc_created = 0
    /\ last = NoCallback

IngressStart == InIdle

\* The peer opens a unidirectional stream: h2o_http3_on_create_unidirectional_stream.
\* The streams are opened in the order of their names.
PeerOpensStream(s, script) ==
    /\ conn_error = OK
    /\ streams[s].handle_input = NoHandler
    /\ s = "s2" => streams["s1"].handle_input # NoHandler
    /\ streams' = [streams EXCEPT ![s] = NewIngressUnistream(script)]
    /\ last' = [NoCallback EXCEPT !.kind = "create", !.stream = s,
                                  !.handler_after = UnknownType]
    /\ UNCHANGED <<conn, conn_error, stop_sending, enc_created, not_in_vars>>

\* the unconsumed bytes a stream holds contiguously
Available(st) ==
    Prefix(st.recvbuf.bytes,
           Min(quicly_recvstate_bytes_available(st.recvstate), Len(st.recvbuf.bytes)))

\* A STREAM frame with the bytes [a, a + n) of the stream, and the FIN or
\* not, arrives: quicly updates the receive state and calls on_receive.
\* The receive buffer obtains the memory it asks for.
Deliver(s, a, n, fin, skip) ==
    LET st == streams[s]
        off == a - st.data_off
        input == Slice(st.script, a, n)
        rs == quicly_recvstate_update(st.recvstate, off, n, fin)
    IN
    /\ conn_error = OK
    /\ st.handle_input # NoHandler
    /\ off >= 0
    /\ a + n <= Len(st.script)
    /\ off <= quicly_recvstate_bytes_available(st.recvstate) + skip
    /\ fin => a + n = Len(st.script)
    /\ rs # st.recvstate
    /\ \E r \in {ingress_unistream_on_receive(conn, s, [st EXCEPT !.recvstate = rs],
                                                off, input, TRUE)} :
           /\ conn' = r.conn
           /\ streams' = [streams EXCEPT ![s] = r.stream]
           /\ conn_error' = r.ret
           /\ stop_sending' = [stop_sending EXCEPT ![s] = @ + r.stop]
           /\ enc_created' =
                  enc_created + Cardinality({i \in DOMAIN r.settings : r.settings[i].created})
           /\ last' = [kind |-> "receive", stream |-> s,
                       handler_before |-> st.handle_input,
                       handler_after |-> r.stream.handle_input,
                       ret |-> r.ret, invoked |-> r.invoked,
                       found_closed |-> r.found_closed, avail |-> r.avail,
                       advanced |-> r.advanced, consumed |-> r.consumed,
                       synced |-> r.synced, untouched |-> r.untouched,
                       size_before |-> r.size_before, presented |-> r.presented,
                       stop |-> r.stop,
                       frames |-> r.frames, settings |-> r.settings, fed |-> r.fed]
    /\ UNCHANGED not_in_vars

\* The peer resets the stream: quicly calls on_receive_reset.
PeerResetsStream(s) ==
    /\ conn_error = OK
    /\ streams[s].handle_input # NoHandler
    /\ conn_error' = ingress_unistream_on_receive_reset(streams[s])
    /\ last' = [NoCallback EXCEPT !.kind = "receive_reset", !.stream = s,
                                  !.handler_before = streams[s].handle_input,
                                  !.handler_after = streams[s].handle_input,
                                  !.ret = ingress_unistream_on_receive_reset(streams[s])]
    /\ UNCHANGED <<conn, streams, stop_sending, enc_created, not_in_vars>>

\* a step of the streams S, whose segments start at most skip bytes past
\* the contiguous prefix
IngressStep(S, skip) ==
    \/ \E s \in S, script \in Scripts : PeerOpensStream(s, script)
    \/ \E s \in S, a \in 0..MaxScriptLen, n \in 0..MaxScriptLen, fin \in BOOLEAN :
          Deliver(s, a, n, fin, skip)
    \/ \E s \in S : PeerResetsStream(s)

\* one stream, whose segments may arrive out of order
IngressNext == IngressStep({"s1"}, MaxSkip)

\* two streams, each delivered in order, interleaved in any way
StreamsNext == IngressStep(StreamIds, 0)

\* the handlers of the streams whose end closes the connection
CriticalHandlers == {ControlFrame, QpackEncoderFeed, QpackDecoderFeed}

\* how many encoders the last call created
CreatedNow == Cardinality({i \in DOMAIN last.settings : last.settings[i].created})

\* C1: a frame read on a control stream is handed to the HTTP layer's
\* callback exactly when it is a SETTINGS frame and the connection has not
\* yet received SETTINGS, or it is neither SETTINGS nor DATA and SETTINGS
\* has been received; any other frame makes the handler return
\* MALFORMED_FRAME(its type) without the callback being called.
C1_ControlFrameGating ==
    last.kind = "receive" =>
        \A i \in DOMAIN last.frames :
            LET type == last.frames[i].frame.type
                received_settings == enc_created - CreatedNow > 0
                legal == \/ type = 4 /\ ~received_settings
                         \/ type # 4 /\ type # 0 /\ received_settings
            IN  /\ last.frames[i].callback <=> legal
                /\ ~legal => last.ret = <<"MALFORMED_FRAME", type>>
                /\ ~legal => last.settings = <<>>

C1_Witness ==
    /\ last.kind = "receive"
    /\ last.frames # <<>>
    /\ last.frames[1].frame.type = 13
    /\ last.frames[1].callback
    /\ last.ret = OK

\* C2: on a stream whose handler is control-frame, qpack-encoder-feed or
\* qpack-decoder-feed, an on-receive call that finds the transfer complete
\* returns CLOSED_CRITICAL_STREAM without calling the input handler, and an
\* on-receive-reset call returns CLOSED_CRITICAL_STREAM.
C2_CriticalStreamClosure ==
    last.handler_before \in CriticalHandlers =>
        /\ (last.kind = "receive"
               /\ quicly_recvstate_transfer_complete(streams[last.stream].recvstate) =>
                  /\ last.ret = <<"CLOSED_CRITICAL_STREAM", 0>>
                  /\ ~last.invoked
                  /\ last.consumed = 0
                  /\ last.frames = <<>> /\ last.fed = <<>>)
        /\ (last.kind = "receive_reset" => last.ret = <<"CLOSED_CRITICAL_STREAM", 0>>)

C2_Witness ==
    /\ last.kind = "receive"
    /\ last.handler_before = ControlFrame
    /\ quicly_recvstate_transfer_complete(streams[last.stream].recvstate)
    /\ Len(streams[last.stream].recvbuf.bytes) > 0
    /\ last.ret = H2O_HTTP3_ERROR_CLOSED_CRITICAL_STREAM

\* C3: the control-frame handler reads and gates every complete frame that
\* one delivery makes available: an on-receive call on a control stream
\* returns success only when what it leaves unconsumed holds no complete
\* frame.
C3_EveryCompleteFrameHandled ==
    last.kind = "receive" /\ last.handler_after = ControlFrame /\ last.ret = OK =>
        h2o_http3_read_frame(Available(streams[last.stream]), 0).ret
            = H2O_HTTP3_ERROR_INCOMPLETE

\* the handler the first byte of a stream selects
SelectedBy(type) ==
    CASE type = 67 -> ControlFrame
      [] type = 72 -> QpackEncoderFeed
      [] type = 104 -> QpackDecoderFeed
      [] OTHER -> Discard

\* C9: a stream of the peer starts in unknown-type; its first byte selects
\* the next state and is consumed, and the state never changes again; for
\* an unrecognised first byte STOP_SENDING is requested exactly once, and
\* the delivery that brings the byte and every later one consume all the
\* available bytes and return success.
C9_IngressStateMachine ==
    /\ (last.kind = "create" => streams[last.stream].handle_input = UnknownType)
    /\ (last.kind = "receive" /\ last.handler_before # UnknownType =>
            last.handler_after = last.handler_before)
    /\ (last.kind = "receive" /\ last.invoked => last.handler_after # UnknownType)
    /\ \A s \in StreamIds :
          LET st == streams[s] IN
          /\ st.handle_input = UnknownType =>
                st.data_off = 0 /\ stop_sending[s] = 0
          /\ st.handle_input \notin {NoHandler, UnknownType} =>
                /\ st.handle_input = SelectedBy(st.script[1])
                /\ st.data_off >= 1
                /\ stop_sending[s] = IF st.handle_input = Discard THEN 1 ELSE 0
          /\ st.handle_input = Discard /\ last.kind = "receive" /\ last.stream = s =>
                /\ last.ret = OK
                /\ quicly_recvstate_bytes_available(st.recvstate) = 0

\* C10: the assertion of h2o_http3_handle_settings_frame holds at each of
\* its calls, and the QPACK encoder is created at most once, whatever the
\* frames on the control streams of the connection.
C10_SettingsHandledOnce ==
    /\ \A i \in DOMAIN last.settings : last.settings[i].asserted
    /\ enc_created <= 1
    /\ conn.qpack.enc.present <=> enc_created = 1

C10_Witness ==
    /\ enc_created = 1
    /\ last.kind = "receive"
    /\ last.stream = "s2"
    /\ streams["s1"].handle_input = ControlFrame
    /\ last.handler_after = ControlFrame
    /\ last.frames # <<>>
    /\ last.frames[1].frame.type = H2O_HTTP3_FRAME_TYPE_SETTINGS
    /\ ~last.frames[1].callback
    /\ last.ret = H2O_HTTP3_ERROR_MALFORMED_FRAME(H2O_HTTP3_FRAME_TYPE_SETTINGS)

\* C13: a stream still in the unknown-type state that the peer finishes
\* before any byte (the FIN arrives with zero bytes available) makes the
\* receive path return success: no connection error is raised.
C13_OpenThenClose ==
    /\ last.kind = "receive"
    /\ last.handler_before = UnknownType
    /\ streams[last.stream].recvstate.eos_known
    /\ streams[last.stream].recvstate.eos = 0
    /\ streams[last.stream].data_off = 0
    => last.ret = OK /\ conn_error = OK

\* C18: in an on-receive call that reaches the handler, the bytes removed
\* from the front of recvbuf, the bytes acknowledged to the transport and
\* the distance the handler advanced are the same number, whatever the
\* handler returned; when that number is zero neither the buffer nor the
\* receive state changes.
C18_ConsumptionAccounting ==
    last.kind = "receive" /\ last.invoked =>
        /\ last.consumed = last.advanced
        /\ last.synced = last.advanced
        /\ (last.advanced = 0 => last.untouched)
        /\ (last.advanced # 0 => ~last.untouched)

C18_Witness ==
    /\ last.kind = "receive"
    /\ last.invoked
    /\ last.ret # OK
    /\ last.advanced > 0
    /\ last.advanced < last.avail

\* C20: whenever the qpack-decoder-feed handler feeds bytes to the QPACK
\* encoder the encoder exists, and whenever the qpack-encoder-feed handler
\* feeds bytes to the QPACK decoder the decoder exists.
C20_CoderPresence ==
    \A i \in DOMAIN last.fed : last.fed[i].present

\* C21: in whatever order the segments of a stream arrive, at each hand-off
\* to the input handler the contiguous prefix presented is no longer than
\* recvbuf.size, its bytes are the bytes of the stream in offset order, and
\* no more bytes are then consumed from recvbuf than recvbuf.size.
C21_RecvbufBounds ==
    last.kind = "receive" /\ last.invoked =>
        /\ last.avail <= last.size_before
        /\ last.presented =
               Slice(streams[last.stream].script,
                     streams[last.stream].data_off - last.advanced, last.avail)
        /\ last.consumed <= last.size_before

\* the slot of the connection that goes with a handler of a typed stream
RoleSlot(handle_input) ==
    CASE handle_input = ControlFrame -> "control"
      [] handle_input = QpackEncoderFeed -> "qpack_encoder"
      [] handle_input = QpackDecoderFeed -> "qpack_decoder"

\* C24: for each of the three roles, at most one ingress stream of the
\* connection has the handler of the role, and a stream that announces the
\* type byte of a role another stream already holds is not put into the
\* slot of that role in its place.
C24_RoleBoundOnce ==
    \A h \in {ControlFrame, QpackEncoderFeed, QpackDecoderFeed} :
        /\ Cardinality({s \in StreamIds : streams[s].handle_input = h}) <= 1
        /\ (/\ last.kind = "receive"
            /\ last.handler_before = UnknownType
            /\ last.handler_after = h
            /\ \E t \in StreamIds \ {last.stream} : streams[t].handle_input = h)
           => conn.ingress[RoleSlot(h)] # last.stream

\* ------------------------------------------------- SETTINGS payloads

MaxPairs == 2

\* identifiers: HEADER_TABLE_SIZE, one that shares its low byte, another one
SettingIds == {H2O_HTTP3_SETTINGS_HEADER_TABLE_SIZE, 257, 6}

\* values, as their bytes without leading zeros, and a varint encoding of
\* each: 32, 200, 4096, 256 in eight bytes, 2^32 + 5
SettingValues ==
    { [digits |-> <<32>>, enc |-> <<32>>],
      [digits |-> <<200>>, enc |-> <<64, 200>>],
      [digits |-> <<16, 0>>, enc |-> <<128, 0, 16, 0>>],
      [digits |-> <<1, 0>>, enc |-> <<192, 0, 0, 0, 0, 0, 1, 0>>],
      [digits |-> <<1, 0, 0, 0, 5>>, enc |-> <<192, 0, 0, 1, 0, 0, 0, 5>>] }

SettingPairs == [id : SettingIds, value : SettingValues]

EncodePair(p) == <<p.id \div 256, p.id % 256>> \o p.value.enc

RECURSIVE EncodePairs(_)
EncodePairs(pairs) ==
    IF pairs = <<>> THEN <<>> ELSE EncodePair(Head(pairs)) \o EncodePairs(Tail(pairs))

\* the payload of the SETTINGS frame: the pairs, less the bytes cut off
SettingsPayload(pairs, cut) ==
    Prefix(EncodePairs(pairs), Len(EncodePairs(pairs)) - cut)

RECURSIVE Canon(_)
\* the bytes of a number without leading zeros
Canon(digits) ==
    IF digits # <<>> /\ Head(digits) = 0 THEN Canon(Tail(digits)) ELSE digits

RECURSIVE LastTableSize(_, _)
\* the value of the last HEADER_TABLE_SIZE pair, or the default
LastTableSize(pairs, default) ==
    IF pairs = <<>> THEN default
    ELSE LastTableSize(Tail(pairs),
                       IF Head(pairs).id = H2O_HTTP3_SETTINGS_HEADER_TABLE_SIZE
                       THEN Head(pairs).value.digits ELSE default)

SetNoCall == [called |-> FALSE, ret |-> OK, enc |-> NoCoder, created |-> FALSE]

SetIdle ==
    /\ set_pairs = <<>>
    /\ set_cut = 0
    /\ set_res = SetNoCall

\* a SETTINGS frame has been read on the control stream of a connection
\* that has not received SETTINGS
SettingsStart ==
    /\ set_pairs \in SeqsUpTo(SettingPairs, MaxPairs)
    /\ set_cut \in 0..9
    /\ set_cut > 0 =>
           set_pairs # <<>> /\ set_cut < Len(EncodePair(set_pairs[Len(set_pairs)]))
    /\ set_res = SetNoCall

\* the HTTP layer calls h2o_http3_handle_settings_frame on the payload
HandleSettings ==
    /\ ~set_res.called
    /\ LET r == h2o_http3_handle_settings_frame(ConnAfterSetup,
                                                SettingsPayload(set_pairs, set_cut))
       IN  set_res' = [called |-> TRUE, ret |-> r.ret, enc |-> r.conn.qpack.enc,
                       created |-> r.created]
    /\ UNCHANGED <<set_pairs, set_cut, not_set_vars>>

SettingsNext == HandleSettings

\* C17 as claimed: a payload with a truncated id or value gives
\* MALFORMED_FRAME(SETTINGS) and no encoder; a whole payload gives success
\* and an encoder whose table size equals the value of the last
\* HEADER_TABLE_SIZE pair, or 4096 when there is none.
C17_SettingsPayload ==
    set_res.called =>
        IF set_cut > 0
        THEN /\ set_res.ret = <<"MALFORMED_FRAME", 4>>
             /\ ~set_res.enc.present
             /\ ~set_res.created
        ELSE /\ set_res.ret = OK
             /\ set_res.enc.present
             /\ Canon(set_res.enc.header_table_size) = LastTableSize(set_pairs, <<16, 0>>)

\* C17 as amended: the same, with the table size equal to the low 32 bits
\* of the value of the last HEADER_TABLE_SIZE pair.
C17_SettingsPayloadLow32 ==
    set_res.called =>
        IF set_cut > 0
        THEN /\ set_res.ret = <<"MALFORMED_FRAME", 4>>
             /\ ~set_res.enc.present
             /\ ~set_res.created
        ELSE /\ set_res.ret = OK
             /\ set_res.enc.present
             /\ Len(set_res.enc.header_table_size) = 4
             /\ LET sent == LastTableSize(set_pairs, <<16, 0>>)
                    low == IF Len(sent) > 4 THEN Slice(sent, Len(sent) - 4, 4) ELSE sent
                IN  Canon(set_res.enc.header_table_size) = Canon(low)

C17_Witness ==
    /\ set_res.called
    /\ set_cut = 0
    /\ Len(set_pairs) = 2
    /\ set_pairs[1].id = H2O_HTTP3_SETTINGS_HEADER_TABLE_SIZE
    /\ set_pairs[2].id = H2O_HTTP3_SETTINGS_HEADER_TABLE_SIZE
    /\ set_pairs[2].value.digits = <<1, 0, 0, 0, 5>>
    /\ set_res.enc = Coder(<<0, 0, 0, 5>>)

\* ------------------------------------------------------ the connection timer

\* h2o_timer_link(loop, delay, timer): the timer expires delay after now
h2o_timer_link(t, delay) == [linked |-> TRUE, expire_at |-> t + delay]

\* h2o_timer_unlink(timer)
h2o_timer_unlink(timer) == [timer EXCEPT !.linked = FALSE]

\* A scheduler that registers the timer again without removing the
\* registration it has.
schedule_timer_without_unlink(timer, t, timeout, libuv) ==
    LET delay == IF t < timeout THEN timeout - t ELSE 0
    IN  [timer |-> h2o_timer_link(t, delay), unlinks |-> 0, links |-> 1]

\* h2o_http3_schedule_timer(conn): the timer after the call, and how often
\* the call unlinked and linked it
h2o_http3_schedule_timer(timer, t, timeout, libuv) ==
    IF timer.linked /\ ~libuv /\ timeout = timer.expire_at
    THEN [timer |-> timer, unlinks |-> 0, links |-> 0]
    ELSE LET delay == IF t < timeout THEN timeout - t ELSE 0
         IN  [timer |-> h2o_timer_link(t, delay),
              unlinks |-> IF timer.linked THEN 1 ELSE 0, links |-> 1]

MaxTime == 3

Times == 0..MaxTime

NoSchedule ==
    [called |-> FALSE, was_linked |-> FALSE, deadline |-> 0, at |-> 0,
     unlinks |-> 0, links |-> 0,
     was_armed_for |-> 0, was_armed_at |-> 0, armed_for |-> 0, armed_at |-> 0]

\* h2o_http3_init_conn: h2o_timer_init leaves the timer unlinked
TmIdle ==
    /\ timeout_ = [linked |-> FALSE, expire_at |-> 0]
    /\ pending = 0
    /\ now = 0
    /\ first_timeout = 0
    /\ use_libuv = FALSE
    /\ tm_last = NoSchedule

TimerStart ==
    /\ timeout_ = [linked |-> FALSE, expire_at |-> 0]
    /\ pending = 0
    /\ now \in Times
    /\ first_timeout \in Times
    /\ use_libuv \in BOOLEAN
    /\ tm_last = NoSchedule

\* h2o_http3_schedule_timer is called (by h2o_http3_setup or h2o_http3_send)
ScheduleTimer ==
    LET r == h2o_http3_schedule_timer(timeout_, now, first_timeout, use_libuv) IN
    /\ timeout_' = r.timer
    /\ pending' = pending - r.unlinks + r.links
    /\ tm_last' = [called |-> TRUE, was_linked |-> timeout_.linked,
                   deadline |-> first_timeout, at |-> now,
                   unlinks |-> r.unlinks, links |-> r.links,
                   was_armed_for |-> tm_last.armed_for, was_armed_at |-> tm_last.armed_at,
                   armed_for |-> IF r.links = 1 THEN first_timeout ELSE tm_last.armed_for,
                   armed_at |-> IF r.links = 1 THEN now ELSE tm_last.armed_at]
    /\ UNCHANGED <<now, first_timeout, use_libuv, not_tm_vars>>

\* quicly moves its deadline (a packet was received or sent)
DeadlineMoves(t) ==
    /\ t # first_timeout
    /\ first_timeout' = t
    /\ UNCHANGED <<timeout_, pending, now, use_libuv, tm_last, not_tm_vars>>

\* the loop's clock advances
Tick ==
    /\ now < MaxTime
    /\ now' = now + 1
    /\ UNCHANGED <<timeout_, pending, first_timeout, use_libuv, tm_last, not_tm_vars>>

\* The timer expires: the loop unlinks it and calls on_timeout, which runs
\* h2o_http3_send; quicly_send leaves the deadline at t, and the send loop
\* ends in h2o_http3_schedule_timer.
OnTimeout(t) ==
    /\ timeout_.linked
    /\ timeout_.expire_at <= now
    /\ LET fired == h2o_timer_unlink(timeout_)
           r == h2o_http3_schedule_timer(fired, now, t, use_libuv)
       IN  /\ timeout_' = r.timer
           /\ pending' = pending - 1 - r.unlinks + r.links
           /\ tm_last' = [called |-> TRUE, was_linked |-> FALSE,
                          deadline |-> t, at |-> now,
                          unlinks |-> r.unlinks, links |-> r.links,
                          was_armed_for |-> tm_last.armed_for,
                          was_armed_at |-> tm_last.armed_at,
                          armed_for |-> t, armed_at |-> now]
    /\ first_timeout' = t
    /\ UNCHANGED <<now, use_libuv, not_tm_vars>>

TimerNext ==
    \/ ScheduleTimer
    \/ \E t \in Times : DeadlineMoves(t)
    \/ Tick
    \/ \E t \in Times : OnTimeout(t)

\* the call found the timer armed, and the deadline the one it was armed for
Rescheduled ==
    /\ tm_last.called
    /\ tm_last.was_linked
    /\ tm_last.deadline = tm_last.was_armed_for

\* C8 as claimed: a call of h2o_http3_schedule_timer that finds the timer
\* armed and the QUIC deadline unchanged neither unlinks nor links the
\* timer, wherever the deadline lies relative to the current time; and at
\* most one timer is pending.
C8_TimerCoalescing ==
    /\ (Rescheduled => tm_last.unlinks = 0 /\ tm_last.links = 0)
    /\ pending <= 1

\* C8 as amended: in a build without H2O_USE_LIBUV, such a call neither
\* unlinks nor links the timer when the deadline was not earlier than the
\* loop's time when the timer was armed (the timer expires at the deadline
\* itself); when the deadline was earlier, the timer expires at the time
\* of arming instead and the call unlinks and links it once; and at most
\* one timer is pending, exactly when the timer is linked.
C8_TimerCoalescingFromDeadline ==
    /\ (Rescheduled /\ ~use_libuv /\ tm_last.was_armed_for >= tm_last.was_armed_at =>
            tm_last.unlinks = 0 /\ tm_last.links = 0)
    /\ (Rescheduled /\ tm_last.was_armed_for < tm_last.was_armed_at =>
            tm_last.unlinks = 1 /\ tm_last.links = 1)
    /\ pending <= 1
    /\ (timeout_.linked <=> pending = 1)

C8_Witness ==
    /\ Rescheduled
    /\ ~use_libuv
    /\ tm_last.was_armed_for > tm_last.was_armed_at
    /\ tm_last.at > tm_last.deadline
    /\ tm_last.links = 0
    /\ timeout_.linked

\* ------------------------------------------------- egress send callbacks

MaxSendbuf == 3
MaxEmit == 3

\* bytes of the three stream headers
EgressBytes == {67, 0, 4, 104}

\* memcpy(dst, src, n): the n bytes at src
memcpy(bytes, src, n) == Slice(bytes, src, n)

\* egress_unistream_on_send_emit(qs, off, dst, len, wrote_all): the bytes
\* written at dst, *len and *wrote_all on return. The subtraction is of
\* size_t, and quicly asks at offsets within the buffer.
egress_unistream_on_send_emit(sendbuf, off, len) ==
    IF len >= sendbuf.size - off
    THEN [ret |-> 0, len |-> sendbuf.size - off, wrote_all |-> TRUE,
          dst |-> memcpy(sendbuf.bytes, 0, sendbuf.size - off)]
    ELSE [ret |-> 0, len |-> len, wrote_all |-> FALSE,
          dst |-> memcpy(sendbuf.bytes, 0, len)]

\* egress_unistream_on_send_shift(qs, delta)
egress_unistream_on_send_shift(sendbuf, delta) == h2o_buffer_consume(sendbuf, delta)

EgNoCall == [kind |-> "none", off |-> 0, req |-> 0, len |-> 0, wrote_all |-> FALSE,
             dst |-> <<>>, sendbuf |-> [bytes |-> <<>>, size |-> 0]]

EgIdle ==
    /\ eg_sendbuf = [bytes |-> <<>>, size |-> 0]
    /\ eg_last = EgNoCall

\* an egress unistream whose sendbuf holds what was appended and not yet
\* shifted out
EgressStart ==
    /\ \E bytes \in SeqsUpTo(EgressBytes, MaxSendbuf) :
           eg_sendbuf = [bytes |-> bytes, size |-> Len(bytes)]
    /\ eg_last = EgNoCall

\* quicly asks for up to req bytes at offset off of the send buffer
OnSendEmit ==
    \E off \in 0..eg_sendbuf.size, req \in 1..MaxEmit :
        /\ \E r \in {egress_unistream_on_send_emit(eg_sendbuf, off, req)} :
               eg_last' = [kind |-> "emit", off |-> off, req |-> req, len |-> r.len,
                           wrote_all |-> r.wrote_all, dst |-> r.dst,
                           sendbuf |-> eg_sendbuf]
        /\ UNCHANGED <<eg_sendbuf, not_eg_vars>>

\* quicly reports that the first delta bytes were acknowledged
OnSendShift ==
    \E delta \in 1..eg_sendbuf.size :
        /\ eg_sendbuf' = egress_unistream_on_send_shift(eg_sendbuf, delta)
        /\ eg_last' = [EgNoCall EXCEPT !.kind = "shift", !.req = delta,
                                       !.sendbuf = eg_sendbuf]
        /\ UNCHANGED not_eg_vars

EgressNext == OnSendEmit \/ OnSendShift

\* C12: an emit at offset off for up to req bytes writes
\* sendbuf[off .. off + n) with n = min(req, size - off), returns n as the
\* length, and sets wrote_all exactly when off + n = size.
C12_EmitAtOffset ==
    eg_last.kind = "emit" =>
        LET n == Min(eg_last.req, eg_last.sendbuf.size - eg_last.off) IN
        /\ eg_last.len = n
        /\ eg_last.dst = Slice(eg_last.sendbuf.bytes, eg_last.off, n)
        /\ (eg_last.wrote_all <=> eg_last.off + n = eg_last.sendbuf.size)

\* ------------------------------------------- connections of a context

\* peer addresses and destination CIDs
Peers == {"A", "B"}
Cids == {"x", "y"}

ConnNames == {"c1", "c2"}
NULL == "NULL"

\* khash maps: kh_get, kh_put followed by the assignment of kh_val, kh_del
kh_exists(map, key) == key \in DOMAIN map
kh_put(map, key, val) == [k \in DOMAIN map \cup {key} |-> IF k = key THEN val ELSE map[k]]
kh_del(map, key) == [k \in DOMAIN map \ {key} |-> map[k]]
kh_empty == [k \in {} |-> NULL]

NoQuic == [present |-> FALSE, master_id |-> 0, is_client |-> FALSE, peer |-> "",
           offered_cid |-> "", first_timeout |-> 0]

\* h2o_http3_init_conn(conn, ctx, callbacks): the structure is zeroed and
\* the timer initialised
h2o_http3_init_conn ==
    [state |-> "init", quic |-> NoQuic,
     qpack |-> [enc |-> NoCoder, dec |-> NoCoder],
     opened |-> <<>>,
     egress |-> [control |-> 0, qpack_encoder |-> 0, qpack_decoder |-> 0],
     timeout |-> [linked |-> FALSE, expire_at |-> 0],
     ret |-> OK]

\* calc_accepting_hashkey(sa, offered_cid): a keyed hash of the address and
\* the CID, taken as free of collisions
calc_accepting_hashkey(sa, offered_cid) == <<sa, offered_cid>>

\* calc_accepting_hashkey_from_conn(quic)
calc_accepting_hashkey_from_conn(quic) ==
    calc_accepting_hashkey(quic.peer, quic.offered_cid)

\* what quicly_open_stream and quicly_stream_sync_sendbuf can do in one
\* call of open_egress_unistream
OpenOutcomes == {"ok", "open_fails", "sync_fails"}

\* An open that appends the initial bytes and never tells the transport.
open_without_sync(c, slot, initial_bytes, outcome) ==
    IF outcome = "open_fails"
    THEN [ret |-> PTLS_ERROR_NO_MEMORY, conn |-> c]
    ELSE [ret |-> OK,
          conn |-> [c EXCEPT !.opened = Append(@, [sendbuf |-> [bytes |-> initial_bytes,
                                                                size |-> Len(initial_bytes)],
                                                   dirty |-> FALSE]),
                             !.egress[slot] = Len(c.opened) + 1]]

\* open_egress_unistream(conn, stream, initial_bytes): quicly_open_stream
\* runs h2o_http3_on_create_unidirectional_stream, which gives the stream an
\* empty sendbuf; the bytes are appended and the sendbuf reported
open_egress_unistream(c, slot, initial_bytes, outcome) ==
    IF outcome = "open_fails"
    THEN [ret |-> PTLS_ERROR_NO_MEMORY, conn |-> c]
    ELSE [ret |-> IF outcome = "sync_fails" THEN PTLS_ERROR_NO_MEMORY ELSE OK,
          conn |-> [c EXCEPT !.opened = Append(@, [sendbuf |-> [bytes |-> initial_bytes,
                                                                size |-> Len(initial_bytes)],
                                                   dirty |-> outcome = "ok"]),
                             !.egress[slot] = Len(c.opened) + 1]]

\* the right-hand side of || in h2o_http3_setup
OpenNext(r, slot, initial_bytes, outcome) ==
    IF r.ret # OK THEN r ELSE open_egress_unistream(r.conn, slot, initial_bytes, outcome)

SetupFinish(r, t) ==
    IF r.ret # OK
    THEN [r EXCEPT !.conn.ret = r.ret]
    ELSE [ret |-> OK,
          conn |-> [r.conn EXCEPT
                       !.timeout = h2o_http3_schedule_timer(@, t, r.conn.quic.first_timeout,
                                                            FALSE).timer,
                       !.ret = OK]]

\* the two registrations of h2o_http3_setup
SetupRegister(maps, name, quic) ==
    [conns_by_id |-> kh_put(maps.conns_by_id, quic.master_id, name),
     conns_accepting |->
         IF ~quic.is_client
         THEN kh_put(maps.conns_accepting, calc_accepting_hashkey_from_conn(quic), name)
         ELSE maps.conns_accepting]

\* h2o_http3_setup(conn, quic) for the connection called name, at time t,
\* with the outcomes of the three opens
h2o_http3_setup(c, name, quic, maps, outcomes, t) ==
    [res |-> SetupFinish(
                 OpenNext(
                     OpenNext(
                         open_egress_unistream(
                             [c EXCEPT !.state = "setup", !.quic = quic,
                                       !.qpack.dec = Coder(Bytes4(H2O_HTTP3_DEFAULT_HEADER_TABLE_SIZE))],
                             "control", <<67, 0, 4>>, outcomes[1]),
                         "qpack_encoder", <<72>>, outcomes[2]),
                     "qpack_decoder", <<104>>, outcomes[3]),
                 t),
     maps |-> SetupRegister(maps, name, quic)]

\* A disposal that leaves the entry of conns_accepting in place.
dispose_keeps_accepting(c, maps) ==
    [conn |-> [h2o_http3_init_conn EXCEPT !.state = "disposed"],
     maps |-> IF c.quic.present /\ kh_exists(maps.conns_by_id, c.quic.master_id)
              THEN [maps EXCEPT !.conns_by_id = kh_del(@, c.quic.master_id)]
              ELSE maps]

\* h2o_http3_dispose_conn(conn): the coders are destroyed, the entries of
\* the maps under the keys of the connection deleted, the quicly
\* connection freed with its streams, the timer unlinked
h2o_http3_dispose_conn(c, maps) ==
    [conn |-> [h2o_http3_init_conn EXCEPT !.state = "disposed"],
     maps |->
         IF ~c.quic.present THEN maps
         ELSE [conns_by_id |->
                   IF kh_exists(maps.conns_by_id, c.quic.master_id)
                   THEN kh_del(maps.conns_by_id, c.quic.master_id)
                   ELSE maps.conns_by_id,
               conns_accepting |->
                   IF ~c.quic.is_client
                      /\ kh_exists(maps.conns_accepting, calc_accepting_hashkey_from_conn(c.quic))
                   THEN kh_del(maps.conns_accepting, calc_accepting_hashkey_from_conn(c.quic))
                   ELSE maps.conns_accepting]]

\* quicly_is_destination(quic, sa, salen, packet): whether the packet is
\* for the connection, which quicly decides from the CIDs and the address
quicly_is_destination(name, packet) == packet.dest = name

NotFound == [conn |-> NULL, looked_accepting |-> FALSE, looked_by_id |-> FALSE,
             via |-> "none", asserted |-> TRUE]

\* A lookup that returns what conns_by_id holds without asking quicly.
find_connection_unconfirmed(maps, cs, sa, packet) ==
    IF packet.node_id = 0 /\ packet.thread_id = 0
       /\ kh_exists(maps.conns_by_id, packet.master_id)
    THEN [NotFound EXCEPT !.conn = maps.conns_by_id[packet.master_id],
                          !.looked_accepting = packet.might_be_client_generated,
                          !.looked_by_id = TRUE, !.via = "conns_by_id"]
    ELSE [NotFound EXCEPT !.looked_accepting = packet.might_be_client_generated,
                          !.looked_by_id = (packet.node_id = 0 /\ packet.thread_id = 0)]

\* the second half of find_connection, given what the first half did
FindById(maps, packet, first) ==
    IF packet.node_id = 0 /\ packet.thread_id = 0
    THEN IF kh_exists(maps.conns_by_id, packet.master_id)
            /\ quicly_is_destination(maps.conns_by_id[packet.master_id], packet)
         THEN [first EXCEPT !.conn = maps.conns_by_id[packet.master_id],
                            !.looked_by_id = TRUE, !.via = "conns_by_id"]
         ELSE [first EXCEPT !.looked_by_id = TRUE]
    ELSE first

\* the value kh_val gives for the key of the packet in conns_accepting
AcceptingEntry(maps, sa, packet) ==
    maps.conns_accepting[calc_accepting_hashkey(sa, packet.encrypted)]

\* find_connection(ctx, sa, salen, packet)
find_connection(maps, cs, sa, packet) ==
    IF packet.might_be_client_generated
    THEN IF kh_exists(maps.conns_accepting, calc_accepting_hashkey(sa, packet.encrypted))
         THEN IF quicly_is_destination(AcceptingEntry(maps, sa, packet), packet)
              THEN [NotFound EXCEPT
                       !.conn = AcceptingEntry(maps, sa, packet),
                       !.looked_accepting = TRUE, !.via = "conns_accepting",
                       !.asserted = ~cs[AcceptingEntry(maps, sa, packet)].quic.is_client]
              ELSE FindById(maps, packet,
                            [NotFound EXCEPT
                                !.looked_accepting = TRUE,
                                !.asserted =
                                    ~cs[AcceptingEntry(maps, sa, packet)].quic.is_client])
         ELSE FindById(maps, packet, [NotFound EXCEPT !.looked_accepting = TRUE])
    ELSE FindById(maps, packet, NotFound)

MaxMasterId == 2

MasterIds == 1..MaxMasterId

\* decoded packets: the flag and the CID as encrypted and as decrypted, and
\* the connection quicly would take the packet for
CtxPackets ==
    [might_be_client_generated : BOOLEAN, encrypted : Cids,
     node_id : {0, 1}, thread_id : {0}, master_id : MasterIds,
     dest : ConnNames \cup {NULL}]
    \cup
    [might_be_client_generated : BOOLEAN, encrypted : {"x"},
     node_id : {0}, thread_id : {1}, master_id : {1},
     dest : ConnNames]

CtxNoCall == [kind |-> "none", conn |-> NULL, ret |-> OK, flag |-> FALSE,
              authentic |-> FALSE, dest |-> NULL, found |-> NotFound,
              before |-> [conns_by_id |-> kh_empty, conns_accepting |-> kh_empty]]

CtxIdle ==
    /\ quics = [c \in ConnNames |-> NoQuic]
    /\ conns = [c \in ConnNames |-> h2o_http3_init_conn]
    /\ ctx = [conns_by_id |-> kh_empty, conns_accepting |-> kh_empty]
    /\ ctx_last = CtxNoCall

\* two connections initialised on one context with empty maps, and the
\* quicly connections they are going to be set up with
CtxStart ==
    /\ quics \in [ConnNames -> [present : {TRUE}, master_id : MasterIds, is_client : BOOLEAN,
                                 peer : {"A"}, offered_cid : Cids, first_timeout : {1}]]
    /\ quics["c1"].master_id = 1
    /\ quics["c1"].offered_cid = "x"
    /\ conns = [c \in ConnNames |-> h2o_http3_init_conn]
    /\ ctx = [conns_by_id |-> kh_empty, conns_accepting |-> kh_empty]
    /\ ctx_last = CtxNoCall

\* h2o_http3_setup on a connection that was initialised
Setup(c) ==
    /\ conns[c].state = "init"
    /\ \E outcomes \in [1..3 -> OpenOutcomes] :
       \E r \in {h2o_http3_setup(conns[c], c, quics[c], ctx, outcomes, 0)} :
           /\ conns' = [conns EXCEPT ![c] = r.res.conn]
           /\ ctx' = r.maps
           /\ ctx_last' = [CtxNoCall EXCEPT !.kind = "setup", !.conn = c, !.ret = r.res.ret]
    /\ UNCHANGED <<quics, not_ctx_vars>>

\* h2o_http3_dispose_conn on a connection that was initialised or set up
DisposeConn(c) ==
    /\ conns[c].state # "disposed"
    /\ \E r \in {h2o_http3_dispose_conn(conns[c], ctx)} :
           /\ conns' = [conns EXCEPT ![c] = r.conn]
           /\ ctx' = r.maps
    /\ ctx_last' = [CtxNoCall EXCEPT !.kind = "dispose", !.conn = c, !.before = ctx]
    /\ UNCHANGED <<quics, not_ctx_vars>>

\* process_packets looks up the connection of a batch by its first packet
FindConnection ==
    /\ \E packet \in CtxPackets :
           ctx_last' = [CtxNoCall EXCEPT
                           !.kind = "find",
                           !.flag = packet.might_be_client_generated,
                           !.authentic = (packet.node_id = 0 /\ packet.thread_id = 0),
                           !.dest = packet.dest,
                           !.found = find_connection(ctx, conns, "A", packet)]
    /\ UNCHANGED <<quics, conns, ctx, not_ctx_vars>>

CtxNext ==
    \/ \E c \in ConnNames : Setup(c)
    \/ \E c \in ConnNames : DisposeConn(c)
    \/ FindConnection

C14_OneMapPerPacket ==
    ctx_last.kind = "find" =>
        /\ (ctx_last.found.looked_accepting <=> ctx_last.flag)
        /\ (ctx_last.found.looked_by_id <=> ~ctx_last.flag /\ ctx_last.authentic)
        /\ (ctx_last.flag /\ ctx_last.found.via # "conns_accepting"
                => ctx_last.found.conn = NULL)
        /\ (ctx_last.found.conn # NULL => ctx_last.dest = ctx_last.found.conn)

\* C14 as amended: conns_accepting is consulted exactly for flagged packets,
\* conns_by_id exactly when the packet was not resolved through
\* conns_accepting and node_id and thread_id are zero, whatever the flag; a
\* connection is returned only from a map that was consulted, and every
\* connection returned is one quicly_is_destination confirms.
C14_LookupOrder ==
    ctx_last.kind = "find" =>
        /\ (ctx_last.found.looked_accepting <=> ctx_last.flag)
        /\ (ctx_last.found.looked_by_id <=>
                ctx_last.found.via # "conns_accepting" /\ ctx_last.authentic)
        /\ (ctx_last.found.via = "conns_accepting" => ctx_last.found.looked_accepting)
        /\ (ctx_last.found.via = "conns_by_id" => ctx_last.found.looked_by_id)
        /\ (ctx_last.found.conn = NULL <=> ctx_last.found.via = "none")
        /\ (ctx_last.found.conn # NULL => ctx_last.dest = ctx_last.found.conn)
        /\ ctx_last.found.asserted

C14_Witness ==
    /\ ctx_last.kind = "find"
    /\ ctx_last.flag
    /\ ctx_last.found.looked_accepting
    /\ ctx_last.found.via = "conns_by_id"
    /\ ctx_last.found.conn # NULL
    /\ DOMAIN ctx.conns_accepting # {}

DistinctMasterIds ==
    \A c, d \in ConnNames : c # d => quics[c].master_id # quics[d].master_id

Values(map) == {map[k] : k \in DOMAIN map}

\* C15: with pairwise distinct master ids, a connection is what
\* conns_by_id holds under its master id from its setup until its disposal;
\* after its disposal no entry of either map holds it, and find_connection
\* does not return it.
C15_RegistryLifetime ==
    DistinctMasterIds =>
        /\ \A c \in ConnNames :
               /\ conns[c].state = "setup" =>
                      /\ kh_exists(ctx.conns_by_id, quics[c].master_id)
                      /\ ctx.conns_by_id[quics[c].master_id] = c
               /\ conns[c].state = "disposed" =>
                      /\ c \notin Values(ctx.conns_by_id)
                      /\ c \notin Values(ctx.conns_accepting)
        /\ (ctx_last.kind = "find" /\ ctx_last.found.conn # NULL
                => conns[ctx_last.found.conn].state = "setup")

\* whether the map holds the connection under the key
Holds(map, key, name) == kh_exists(map, key) /\ map[key] = name

\* C22: h2o_http3_dispose_conn on a connection removes only entries whose
\* value is that connection: every other connection that is set up is held
\* by conns_by_id and conns_accepting under its keys after the call exactly
\* as before it, also when the accept keys of the two are equal.
C22_DisposalFrame ==
    ctx_last.kind = "dispose" /\ DistinctMasterIds =>
        /\ \A k \in DOMAIN ctx_last.before.conns_by_id \ DOMAIN ctx.conns_by_id :
               ctx_last.before.conns_by_id[k] = ctx_last.conn
        /\ \A k \in DOMAIN ctx_last.before.conns_accepting \ DOMAIN ctx.conns_accepting :
               ctx_last.before.conns_accepting[k] = ctx_last.conn
        /\ \A b \in ConnNames \ {ctx_last.conn} :
               conns[b].state = "setup" =>
                   /\ Holds(ctx.conns_by_id, quics[b].master_id, b)
                          <=> Holds(ctx_last.before.conns_by_id, quics[b].master_id, b)
                   /\ Holds(ctx.conns_accepting, calc_accepting_hashkey_from_conn(quics[b]), b)
                          <=> Holds(ctx_last.before.conns_accepting,
                                    calc_accepting_hashkey_from_conn(quics[b]), b)

C15_Witness ==
    /\ DistinctMasterIds
    /\ conns["c1"].state = "disposed"
    /\ ~quics["c1"].is_client
    /\ quics["c2"].offered_cid = quics["c1"].offered_cid
    /\ conns["c2"].state = "setup"
    /\ ctx_last.kind = "find" /\ ctx_last.found.conn = "c2"
    /\ ctx_last.found.via = "conns_accepting"

\* ------------------------------------------------------ the datagram pump

\* sizeof(packets) / sizeof(packets[0]) in on_read
PACKETS_CAP == 64

\* h2o_socket_compare_address as on_read uses it: true for the same address
h2o_socket_compare_address(x, y) == x = y

\* h2o_memis on the destination CIDs of two decoded packets
SameDestCid(p, q) == p.cid = q.cid

\* What the loops of on_read carry: the packets accumulated in packets[]
\* (packet_index is their number) and the calls of process_packets made.
NoBatch == [packets |-> <<>>, calls |-> <<>>, decoded |-> 0]

\* A flush that hands the batch to process_packets twice.
flushed_twice(acc, sa, packets) ==
    [acc EXCEPT !.packets = <<>>,
                !.calls = @ \o <<[sa |-> sa, packets |-> packets],
                                 [sa |-> sa, packets |-> packets]>>]

\* process_packets(ctx, sa, salen, packets, n) followed by packet_index = 0
Flushed(acc, sa, packets) ==
    [acc EXCEPT !.packets = <<>>,
                !.calls = Append(@, [sa |-> sa, packets |-> packets])]

RECURSIVE DecodeLoop(_, _, _, _)
\* while (off != iov_len): the packets quicly_decode_packet finds in one
\* datagram, the i-th and later; the loop ends at the first undecodable byte
DecodeLoop(sa, pkts, i, acc) ==
    IF i > Len(pkts) THEN acc
    ELSE LET packet_index == Len(acc.packets)
             decoded == Append(acc.packets,
                               [cid |-> pkts[i], from |-> sa, no |-> acc.decoded + 1])
             counted == [acc EXCEPT !.decoded = @ + 1]
         IN  IF packet_index = PACKETS_CAP - 1
                  \/ ~(packet_index = 0 \/ SameDestCid(decoded[1], decoded[packet_index + 1]))
             THEN DecodeLoop(sa, pkts, i + 1, Flushed(counted, sa, decoded))
             ELSE DecodeLoop(sa, pkts, i + 1, [counted EXCEPT !.packets = decoded])

RECURSIVE DgramLoop(_, _, _)
\* for (dgram_index = 0; dgram_index != num_dgrams; ++dgram_index), from the
\* k-th datagram on, and the flush that follows the loop
DgramLoop(dgrams, k, acc) ==
    IF k > Len(dgrams)
    THEN IF Len(acc.packets) # 0
         THEN Flushed(acc, dgrams[k - 1].sa, acc.packets).calls
         ELSE acc.calls
    ELSE LET acc1 ==
                 IF Len(acc.packets) # 0
                      /\ ~(k = 1 \/ h2o_socket_compare_address(dgrams[k - 1].sa, dgrams[k].sa))
                 THEN Flushed(acc, dgrams[k - 1].sa, acc.packets)
                 ELSE acc
         IN  DgramLoop(dgrams, k + 1, DecodeLoop(dgrams[k].sa, dgrams[k].pkts, 1, acc1))

\* the calls of process_packets that one round of on_read makes
on_read(dgrams) == DgramLoop(dgrams, 1, NoBatch)

MaxDgrams == 3
MaxCoalesced == 2

\* a datagram: its peer address and the destination CIDs of the packets
\* that decode from it
Dgrams == [sa : Peers, pkts : SeqsUpTo(Cids, MaxCoalesced)]

\* datagrams that fill packets[]: one packet short of the array, and one
\* more than it holds
Bursts ==
    { [sa |-> "A", pkts |-> [k \in 1..n |-> "x"]] : n \in {PACKETS_CAP - 1, PACKETS_CAP + 1} }

\* The CIDs as quicly_decode_packet reports them: "x" is a CID the client
\* of connection c1 chose, which does not decrypt; "y" is a CID issued for
\* master id 1. quicly takes a packet for c1 if it comes from c1's peer.
DecodedCid(p) ==
    [might_be_client_generated |-> p.cid = "x", encrypted |-> p.cid,
     node_id |-> IF p.cid = "x" THEN 1 ELSE 0, thread_id |-> 0, master_id |-> 1,
     dest |-> IF p.from = "A" THEN "c1" ELSE NULL]

PumpQuic == [present |-> TRUE, master_id |-> 1, is_client |-> FALSE, peer |-> "A",
             offered_cid |-> "x", first_timeout |-> 1]

\* a context on which no connection is set up, or the server connection c1
PumpMaps ==
    { [conns_by_id |-> kh_empty, conns_accepting |-> kh_empty],
      SetupRegister([conns_by_id |-> kh_empty, conns_accepting |-> kh_empty], "c1", PumpQuic) }

\* ctx->acceptor: NULL, or a function that returns NULL or a new connection
PumpEnvs == [maps : PumpMaps, acceptor : {"NULL", "refuses", "accepts"}]

NoPumpEnv == [maps |-> [conns_by_id |-> kh_empty, conns_accepting |-> kh_empty],
              acceptor |-> "NULL"]

PumpConns == [c \in ConnNames |-> [h2o_http3_init_conn EXCEPT !.state = "setup",
                                                              !.quic = PumpQuic]]

\* the for loop of process_packets: quicly_receive on each packet
ReceiveAll(c, packets) ==
    [k \in DOMAIN packets |-> [op |-> "quicly_receive", conn |-> c, no |-> packets[k].no]]

\* process_packets(ctx, sa, salen, packets, num_packets): the connection it
\* ends with and the calls it makes after find_connection, in order
ProcessFound(env, sa, packets, found) ==
    IF found # NULL
    THEN [found |-> found, conn |-> found,
          trace |-> Append(ReceiveAll(found, packets),
                           [op |-> "h2o_http3_send", conn |-> found, no |-> 0])]
    ELSE IF env.acceptor = "accepts"
    THEN [found |-> NULL, conn |-> "c2",
          trace |-> <<[op |-> "acceptor", conn |-> "c2", no |-> 0],
                      [op |-> "h2o_http3_send", conn |-> "c2", no |-> 0]>>]
    ELSE IF env.acceptor = "refuses"
    THEN [found |-> NULL, conn |-> NULL,
          trace |-> <<[op |-> "acceptor", conn |-> NULL, no |-> 0]>>]
    ELSE [found |-> NULL, conn |-> NULL, trace |-> <<>>]

process_packets(env, sa, packets) ==
    ProcessFound(env, sa, packets,
                 find_connection(env.maps, PumpConns, sa, DecodedCid(packets[1])).conn)

PumpIdle ==
    /\ pump_dgrams = <<>>
    /\ pump_calls = <<>>
    /\ pump_pc = "idle"
    /\ pump_env = NoPumpEnv
    /\ pump_did = <<>>

\* the socket was readable and recvmsg has returned the datagrams of a round
PumpStart ==
    /\ pump_dgrams \in SeqsUpTo(Dgrams, MaxDgrams) \ {<<>>}
    /\ pump_calls = <<>>
    /\ pump_pc = "decode"
    /\ pump_env \in PumpEnvs
    /\ pump_did = <<>>

MaxBurstDgrams == 2

\* the same, with datagrams among them that fill packets[]
BurstStart ==
    /\ pump_dgrams \in SeqsUpTo(Dgrams \cup Bursts, MaxBurstDgrams) \ {<<>>}
    /\ pump_calls = <<>>
    /\ pump_pc = "decode"
    /\ pump_env \in PumpEnvs
    /\ pump_did = <<>>

\* "convert dgrams to decoded packets and process"
OnRead ==
    /\ pump_pc = "decode"
    /\ \E calls \in {on_read(pump_dgrams)} :
           /\ pump_calls' = calls
           /\ pump_did' = [c \in DOMAIN calls |->
                              process_packets(pump_env, calls[c].sa, calls[c].packets)]
    /\ pump_pc' = "done"
    /\ UNCHANGED <<pump_dgrams, pump_env, not_pump_vars>>

PumpNext == OnRead

\* C7: the packets of each call of process_packets all came from the same
\* peer address and all carry the same destination CID.
C7_BatchHomogeneity ==
    pump_pc = "done" =>
    \A c \in DOMAIN pump_calls :
        \A i \in DOMAIN pump_calls[c].packets, j \in DOMAIN pump_calls[c].packets :
            /\ pump_calls[c].packets[i].from = pump_calls[c].packets[j].from
            /\ pump_calls[c].packets[i].from = pump_calls[c].sa
            /\ pump_calls[c].packets[i].cid = pump_calls[c].packets[j].cid

RECURSIVE Arrived(_, _)
\* the numbers of the packets of the calls from the c-th on, in order
Arrived(calls, c) ==
    IF c > Len(calls) THEN <<>>
    ELSE [k \in DOMAIN calls[c].packets |-> calls[c].packets[k].no] \o Arrived(calls, c + 1)

RECURSIVE DecodedCount(_, _)
DecodedCount(dgrams, k) ==
    IF k > Len(dgrams) THEN 0 ELSE Len(dgrams[k].pkts) + DecodedCount(dgrams, k + 1)

\* C19: the calls of process_packets of a round, taken in order, carry the
\* decoded packets in arrival order, each once; no call carries no packet
\* or more than 64; and for a connection that find_connection found the
\* packets go to quicly_receive one by one in that order, before
\* h2o_http3_send.
C19_DeliveryOrder ==
    pump_pc = "done" =>
        /\ Arrived(pump_calls, 1) = [k \in 1..DecodedCount(pump_dgrams, 1) |-> k]
        /\ \A c \in DOMAIN pump_calls :
               /\ Len(pump_calls[c].packets) >= 1
               /\ Len(pump_calls[c].packets) <= 64
               /\ pump_did[c].found # NULL =>
                      /\ Len(pump_did[c].trace) = Len(pump_calls[c].packets) + 1
                      /\ \A k \in DOMAIN pump_calls[c].packets :
                             pump_did[c].trace[k] =
                                 [op |-> "quicly_receive", conn |-> pump_did[c].found,
                                  no |-> pump_calls[c].packets[k].no]
                      /\ pump_did[c].trace[Len(pump_did[c].trace)] =
                             [op |-> "h2o_http3_send", conn |-> pump_did[c].found, no |-> 0]

C19_Witness ==
    /\ pump_pc = "done"
    /\ Len(pump_calls) = 3
    /\ Len(pump_calls[1].packets) = 64
    /\ pump_did[1].found = "c1"
    /\ pump_calls[3].sa = "B"
    /\ pump_did[3].conn = "c2"

\* ------------------------------------------------------- the send loop

\* sizeof(packets) / sizeof(packets[0])
NumPackets == 16

MaxFullRounds == 1
MaxEintr == 1
MaxFailures == 1

\* how many packets quicly_send hands out in a round
SendCounts == {0, 1, 2, NumPackets}

QUICLY_ERROR_FREE_CONNECTION == <<"QUICLY_ERROR_FREE_CONNECTION", 0>>

NewPacket == [send_one |-> 0, sendmsg |-> 0, freed |-> 0]

\* A loop body that frees the packet only if it was sent.
send_body_leaks_on_failure(packet, interrupts, sent) ==
    [packet EXCEPT !.send_one = @ + 1, !.sendmsg = @ + interrupts + 1,
                   !.freed = IF sent THEN @ + 1 ELSE @]

\* the body of the for loop on packets[i]: send_one calls sendmsg again
\* each time it fails with EINTR, then the packet is freed
SendBody(packet, interrupts, sent) ==
    [packet EXCEPT !.send_one = @ + 1, !.sendmsg = @ + interrupts + 1, !.freed = @ + 1]

\* while (num_packets == sizeof(packets) / sizeof(packets[0]))
SendAgain(num_packets) == num_packets = NumPackets

NewSendLog ==
    [quicly_send_calls |-> 0, full_rounds |-> 0, handed |-> 0, last_ret |-> OK,
     last_num |-> 0, destroy_calls |-> 0, timer_calls |-> 0, perrors |-> 0,
     eintrs |-> 0, send_one_once |-> TRUE, sendmsg_once |-> TRUE, freed_once |-> TRUE]

SendIdle ==
    /\ send_pc = "idle"
    /\ send_packets = <<>>
    /\ send_i = 0
    /\ send_timeout = [linked |-> FALSE, expire_at |-> 0]
    /\ send_log = NewSendLog

\* h2o_http3_send is entered, from process_packets or from on_timeout
SendStart ==
    /\ send_pc = "quicly_send"
    /\ send_packets = <<>>
    /\ send_i = 0
    /\ send_timeout \in {[linked |-> FALSE, expire_at |-> 0], [linked |-> TRUE, expire_at |-> 1]}
    /\ send_log = NewSendLog

\* quicly_send returns 0 with num_packets packets; a connection has only
\* so much to send, so that after MaxFullRounds full rounds fewer come
QuiclySendPackets ==
    /\ send_pc = "quicly_send"
    /\ \E n \in SendCounts :
           /\ send_log.full_rounds = MaxFullRounds => n < NumPackets
           /\ send_packets' = [k \in 1..n |-> NewPacket]
           /\ send_log' = [send_log EXCEPT !.quicly_send_calls = @ + 1, !.handed = @ + n,
                                           !.last_ret = OK, !.last_num = n]
    /\ send_i' = 0
    /\ send_pc' = "for"
    /\ UNCHANGED <<send_timeout, not_send_vars>>

\* quicly_send returns QUICLY_ERROR_FREE_CONNECTION: destroy_connection and
\* return
QuiclySendFree ==
    /\ send_pc = "quicly_send"
    /\ send_log' = [send_log EXCEPT !.quicly_send_calls = @ + 1,
                                    !.last_ret = QUICLY_ERROR_FREE_CONNECTION,
                                    !.destroy_calls = @ + 1]
    /\ send_packets' = <<>>
    /\ send_pc' = "destroyed"
    /\ UNCHANGED <<send_i, send_timeout, not_send_vars>>

\* quicly_send returns anything else: abort()
QuiclySendError ==
    /\ send_pc = "quicly_send"
    /\ send_log' = [send_log EXCEPT !.quicly_send_calls = @ + 1,
                                    !.last_ret = PTLS_ERROR_NO_MEMORY]
    /\ send_packets' = <<>>
    /\ send_pc' = "aborted"
    /\ UNCHANGED <<send_i, send_timeout, not_send_vars>>

\* one turn of the for loop: send_one on packets[i], perror if it
\* returned -1, free_packet
SendOnePacket ==
    /\ send_pc = "for"
    /\ send_i # Len(send_packets)
    /\ \E interrupts \in 0..(MaxEintr - send_log.eintrs), sent \in BOOLEAN :
           /\ ~sent => send_log.perrors < MaxFailures
           /\ send_packets' = [send_packets EXCEPT
                                  ![send_i + 1] = SendBody(@, interrupts, sent)]
           /\ send_log' = [send_log EXCEPT !.eintrs = @ + interrupts,
                                           !.perrors = IF sent THEN @ ELSE @ + 1]
    /\ send_i' = send_i + 1
    /\ UNCHANGED <<send_pc, send_timeout, not_send_vars>>

\* the for loop is over: either another round, or h2o_http3_schedule_timer
\* and return
SendLoopTest ==
    /\ send_pc = "for"
    /\ send_i = Len(send_packets)
    /\ \E again \in {SendAgain(Len(send_packets))} :
           /\ send_log' = [send_log EXCEPT
                  !.full_rounds = IF again THEN @ + 1 ELSE @,
                  !.timer_calls = IF again THEN @ ELSE @ + 1,
                  !.send_one_once = @ /\ \A k \in DOMAIN send_packets :
                                             send_packets[k].send_one = 1,
                  !.sendmsg_once = @ /\ \A k \in DOMAIN send_packets :
                                            send_packets[k].sendmsg = 1,
                  !.freed_once = @ /\ \A k \in DOMAIN send_packets :
                                          send_packets[k].freed = 1]
           /\ send_pc' = IF again THEN "quicly_send" ELSE "returned"
           /\ send_timeout' = IF again THEN send_timeout
                              ELSE h2o_http3_schedule_timer(send_timeout, 0, 1, FALSE).timer
    /\ send_packets' = <<>>
    /\ send_i' = 0
    /\ UNCHANGED not_send_vars

SendNext ==
    \/ QuiclySendPackets
    \/ QuiclySendFree
    \/ QuiclySendError
    \/ SendOnePacket
    \/ SendLoopTest

SendEnded == send_pc \in {"returned", "destroyed", "aborted"}

\* how a run may end: destroyed after FREE_CONNECTION, with one call of
\* destroy_connection and no scheduling of the timer; or returned after a
\* round of fewer than 16 packets, each packet of every round passed on and
\* freed once, the timer scheduled once
SendOutcome(passed_once) ==
    /\ send_pc = "destroyed" =>
           /\ send_log.last_ret = QUICLY_ERROR_FREE_CONNECTION
           /\ send_log.destroy_calls = 1
           /\ send_log.timer_calls = 0
           /\ send_log.quicly_send_calls = send_log.full_rounds + 1
    /\ send_pc = "returned" =>
           /\ send_log.last_ret = OK
           /\ send_log.last_num < NumPackets
           /\ send_log.destroy_calls = 0
           /\ passed_once
           /\ send_log.freed_once
           /\ send_log.timer_calls = 1
           /\ send_timeout.linked
           /\ send_log.quicly_send_calls = send_log.full_rounds + 1
    /\ ~SendEnded => send_log.destroy_calls = 0 /\ send_log.timer_calls = 0

\* C16 as claimed: the run ends, and if it ends otherwise than by abort it
\* is in one of the two ways, with every packet passed to sendmsg once.
C16_SendLoopOutcome ==
    /\ <>SendEnded
    /\ [](SendOutcome(send_log.sendmsg_once))

\* C16 as amended: the same, with every packet passed to send_one once,
\* which calls sendmsg once more each time the call is interrupted.
C16_SendLoopOutcomeSendOne ==
    /\ <>SendEnded
    /\ [](SendOutcome(send_log.send_one_once))

C16_Witness ==
    /\ send_pc = "returned"
    /\ send_log.full_rounds = MaxFullRounds
    /\ send_log.perrors > 0
    /\ send_log.eintrs > 0
    /\ send_log.handed > NumPackets

\* ------------------------------------------- QPACK decoder instructions

MaxQpackSends == 3

RECURSIVE HpackContinuation(_)
\* the bytes that follow a prefix that is full: seven bits each, low first
HpackContinuation(value) ==
    IF value >= 128
    THEN <<128 + (value % 128)>> \o HpackContinuation(value \div 128)
    ELSE <<value>>

\* h2o_hpack_encode_int(dst, value, prefix_bits) into a byte whose bits
\* above the prefix are flags
h2o_hpack_encode_int(flags, value, prefix_bits) ==
    IF value < (2 ^ prefix_bits) - 1
    THEN <<flags + value>>
    ELSE <<flags + ((2 ^ prefix_bits) - 1)>> \o HpackContinuation(value - ((2 ^ prefix_bits) - 1))

\* h2o_qpack_decoder_send_stream_cancel(dec, outbuf, stream_id): the
\* Stream Cancellation instruction, 01 and a six-bit prefix integer
h2o_qpack_decoder_send_stream_cancel(stream_id) == h2o_hpack_encode_int(64, stream_id, 6)

\* H2O_HTTP3_CHECK_SUCCESS(expr): fatal unless expr is true
H2O_HTTP3_CHECK_SUCCESS(expr) == [fatal |-> ~expr]

\* bytes are added at the end of the sendbuf of the stream in the slot, and
\* quicly_stream_sync_sendbuf(stream->quic, 1) is called on it
SendOnEgress(c, slot, bytes) ==
    [c EXCEPT !.opened[c.egress[slot]].sendbuf =
                 [bytes |-> @.bytes \o bytes, size |-> @.size + Len(bytes)],
              !.opened[c.egress[slot]].dirty = TRUE]

\* h2o_http3_send_qpack_stream_cancel(conn, stream_id); sync_ret is what
\* quicly_stream_sync_sendbuf returns
h2o_http3_send_qpack_stream_cancel(c, stream_id, sync_ret) ==
    [conn |-> SendOnEgress(c, "qpack_decoder", h2o_qpack_decoder_send_stream_cancel(stream_id)),
     notified |-> c.egress.qpack_decoder,
     sent |-> h2o_qpack_decoder_send_stream_cancel(stream_id),
     fatal |-> H2O_HTTP3_CHECK_SUCCESS(sync_ret = 0).fatal]

\* h2o_http3_send_qpack_header_ack(conn, bytes, len); h2o_buffer_append
\* returns non-zero, sync_ret is what quicly_stream_sync_sendbuf returns
h2o_http3_send_qpack_header_ack(c, bytes, sync_ret) ==
    [conn |-> SendOnEgress(c, "qpack_encoder", bytes),
     notified |-> c.egress.qpack_encoder,
     sent |-> bytes,
     fatal |-> H2O_HTTP3_CHECK_SUCCESS(sync_ret # 0).fatal]

\* Header Acknowledgement instructions, as the QPACK decoder wrote them
HeaderAcks == { <<128>>, <<255, 2>> }

CancelledStreams == {0, 4, 63, 200}

SyncReturns == {0, 1}

QpNoCall == [kind |-> "none", sent |-> <<>>, notified |-> 0, fatal |-> FALSE,
             before |-> <<>>]

QpIdle ==
    /\ qp_conn = h2o_http3_init_conn
    /\ qp_calls = 0
    /\ qp_last = QpNoCall

\* a connection on which h2o_http3_setup has succeeded
QpStart ==
    /\ qp_conn = h2o_http3_setup(h2o_http3_init_conn, "c1", PumpQuic,
                                 [conns_by_id |-> kh_empty, conns_accepting |-> kh_empty],
                                 <<"ok", "ok", "ok">>, 0).res.conn
    /\ qp_calls = 0
    /\ qp_last = QpNoCall

\* the HTTP layer abandons a request stream
SendQpackStreamCancel ==
    /\ qp_calls < MaxQpackSends
    /\ ~qp_last.fatal
    /\ \E stream_id \in CancelledStreams, sync_ret \in SyncReturns :
       \E r \in {h2o_http3_send_qpack_stream_cancel(qp_conn, stream_id, sync_ret)} :
           /\ qp_conn' = r.conn
           /\ qp_last' = [kind |-> "stream_cancel", sent |-> r.sent, notified |-> r.notified,
                          fatal |-> r.fatal, before |-> qp_conn.opened]
    /\ qp_calls' = qp_calls + 1
    /\ UNCHANGED not_qp_vars

\* the QPACK decoder has decoded a header block
SendQpackHeaderAck ==
    /\ qp_calls < MaxQpackSends
    /\ ~qp_last.fatal
    /\ \E bytes \in HeaderAcks, sync_ret \in SyncReturns :
       \E r \in {h2o_http3_send_qpack_header_ack(qp_conn, bytes, sync_ret)} :
           /\ qp_conn' = r.conn
           /\ qp_last' = [kind |-> "header_ack", sent |-> r.sent, notified |-> r.notified,
                          fatal |-> r.fatal, before |-> qp_conn.opened]
    /\ qp_calls' = qp_calls + 1
    /\ UNCHANGED not_qp_vars

QpNext == SendQpackStreamCancel \/ SendQpackHeaderAck

\* C23: a header acknowledgement and a stream cancellation are added at
\* the end of the sendbuf of the egress QPACK decoder unistream, the one
\* opened with 0x68, that stream is reported to the transport, and the
\* sendbufs of the egress control and QPACK encoder unistreams stay as
\* they were.
C23_DecoderStreamUsed ==
    qp_last.kind \in {"header_ack", "stream_cancel"} =>
        /\ qp_last.before[qp_conn.egress.qpack_decoder].sendbuf.bytes[1] = 104
        /\ qp_conn.opened[qp_conn.egress.qpack_decoder].sendbuf.bytes =
               qp_last.before[qp_conn.egress.qpack_decoder].sendbuf.bytes \o qp_last.sent
        /\ qp_last.notified = qp_conn.egress.qpack_decoder
        /\ qp_conn.opened[qp_conn.egress.control].sendbuf =
               qp_last.before[qp_conn.egress.control].sendbuf
        /\ qp_conn.opened[qp_conn.egress.qpack_encoder].sendbuf =
               qp_last.before[qp_conn.egress.qpack_encoder].sendbuf

\* ---------------------------------------------------------- specifications

RecvbufInit == RecvbufStart /\ FrIdle /\ InIdle /\ PumpIdle /\ TmIdle /\ SetIdle /\ EgIdle /\ CtxIdle /\ SendIdle /\ QpIdle

FrameInit == FrameStart /\ RbIdle /\ InIdle /\ PumpIdle /\ TmIdle /\ SetIdle /\ EgIdle /\ CtxIdle /\ SendIdle /\ QpIdle

CapInit == CapStart /\ RbIdle /\ InIdle /\ PumpIdle /\ TmIdle /\ SetIdle /\ EgIdle /\ CtxIdle /\ SendIdle /\ QpIdle

IngressInit == IngressStart /\ FrIdle /\ RbIdle /\ PumpIdle /\ TmIdle /\ SetIdle /\ EgIdle /\ CtxIdle /\ SendIdle /\ QpIdle

PumpInit == PumpStart /\ FrIdle /\ RbIdle /\ InIdle /\ TmIdle /\ SetIdle /\ EgIdle /\ CtxIdle /\ SendIdle /\ QpIdle

BurstInit == BurstStart /\ FrIdle /\ RbIdle /\ InIdle /\ TmIdle /\ SetIdle /\ EgIdle /\ CtxIdle /\ SendIdle /\ QpIdle

TimerInit == TimerStart /\ FrIdle /\ RbIdle /\ InIdle /\ PumpIdle /\ SetIdle /\ EgIdle /\ CtxIdle /\ SendIdle /\ QpIdle

SettingsInit == SettingsStart /\ FrIdle /\ RbIdle /\ InIdle /\ PumpIdle /\ TmIdle /\ EgIdle /\ CtxIdle /\ SendIdle /\ QpIdle

EgressInit == EgressStart /\ FrIdle /\ RbIdle /\ InIdle /\ PumpIdle /\ TmIdle /\ SetIdle /\ CtxIdle /\ SendIdle /\ QpIdle

CtxInit == CtxStart /\ FrIdle /\ RbIdle /\ InIdle /\ PumpIdle /\ TmIdle /\ SetIdle /\ EgIdle /\ SendIdle /\ QpIdle

SendInit == SendStart /\ FrIdle /\ RbIdle /\ InIdle /\ PumpIdle /\ TmIdle /\ SetIdle /\ EgIdle /\ CtxIdle /\ QpIdle

QpInit == QpStart /\ FrIdle /\ RbIdle /\ InIdle /\ PumpIdle /\ TmIdle /\ SetIdle /\ EgIdle /\ CtxIdle /\ SendIdle

\* h2o_http3_update_recvbuf under writes at any offset
SpecRecvbuf == RecvbufInit /\ [][RecvbufNext]_vars

\* h2o_http3_read_frame over a stream of well-formed frames, byte by byte
SpecFrame == FrameInit /\ [][FrameNext]_vars

\* h2o_http3_read_frame on one frame whose length is around the cap
SpecCap == CapInit /\ [][CapNext]_vars

\* one ingress unidirectional stream, delivered in any order
Spec == IngressInit /\ [][IngressNext]_vars

\* two ingress unidirectional streams of one connection
SpecStreams == IngressInit /\ [][StreamsNext]_vars

\* the packet grouping of on_read
SpecPump == PumpInit /\ [][PumpNext]_vars

\* the timer of one connection
SpecTimer == TimerInit /\ [][TimerNext]_vars

\* h2o_http3_handle_settings_frame on whole and truncated payloads
SpecSettings == SettingsInit /\ [][SettingsNext]_vars

\* the send callbacks of an egress unistream
SpecEgress == EgressInit /\ [][EgressNext]_vars

\* setup, disposal and lookup of the connections of one context
SpecCtx == CtxInit /\ [][CtxNext]_vars

\* one run of h2o_http3_send, which keeps running until it returns
SpecSend == SendInit /\ [][SendNext]_vars /\ WF_vars(SendNext)

\* a round of on_read on datagrams that fill packets[]
SpecPumpBurst == BurstInit /\ [][PumpNext]_vars

\* the QPACK decoder instructions sent on a connection that is set up
SpecQpack == QpInit /\ [][QpNext]_vars

====
